---- MODULE Spec2Model ----
(***************************************************************************)
(* Schedule-combination engine of gaucho_guardian: the time-interval       *)
(* model (has_time_conflict, check_schedule_conflicts_fast), the course    *)
(* normalizer (get_course_info), the combination generator                 *)
(* (find_valid_combinations), the scoring function (score_schedule), the   *)
(* top-K selector (optimize_schedules), repeated generation over the       *)
(* module-level caches and the schedule filter                             *)
(* (filter_courses_by_schedule).                                           *)
(*                                                                         *)
(* Strings of the program are modelled by what the code reads of them:     *)
(*   - a clock-time string is the sequence of its ':'-separated parts; a   *)
(*     part is the integer int() would return, or NaP when int() raises;   *)
(*     the empty string is the empty sequence;                             *)
(*   - a days string is the sequence of its characters.                    *)
(* Python floats are modelled as exact rationals <<num, den>>.             *)
(***************************************************************************)
EXTENDS Integers, Sequences, FiniteSets, TLC

VARIABLES
    pc,                  \* position of the running operation
    slots,               \* conflict check: the list of time slots handed in
    pair_result,         \* conflict check: has_time_conflict(slots[1], slots[2])
    fast_result,         \* conflict check: check_schedule_conflicts_fast(slots)
    raw_records,         \* normalizer: the raw catalog records of one courseId
    course_info,         \* normalizer: what get_course_info returned
    combinations,        \* normalizer: what find_valid_combinations returned
    course_ids,          \* optimizer: the requested course ids
    preferences,         \* optimizer: the preference profile
    max_results,         \* optimizer: k
    per_course,          \* optimizer: all_combinations_per_course
    cursor,              \* optimizer: index tuple of the next product element
    heap,                \* optimizer: the heapq list, kept in pop order
    count_processed,     \* optimizer: number of valid candidates seen
    generated,           \* generator: what generate_all_schedule_combinations returned
    scored_schedules,    \* optimizer: the returned list
    score_prev,          \* scoring: the score_schedule call before the last one
    score_last,          \* scoring: the last score_schedule call
    time_cache,          \* clock: _time_cache, a set of <<time_str, minutes>>
    clock_arg,           \* clock: the argument of the last time_to_minutes call
    clock_result,        \* clock: what that call returned
    data_cache,          \* catalog: _all_course_data_cache, a set of <<course id, records>>
    selection,           \* filter: the time slots of the selected courses
    filtered             \* filter: what filter_courses_by_schedule returned

vars == <<pc, slots, pair_result, fast_result, raw_records, course_info,
          combinations, course_ids, preferences, max_results, per_course,
          cursor, heap, count_processed, generated, scored_schedules,
          score_prev, score_last, time_cache, clock_arg, clock_result,
          data_cache, selection, filtered>>

conflict_vars == <<slots, pair_result, fast_result>>
normalizer_vars == <<raw_records, course_info, combinations>>
optimizer_vars == <<course_ids, preferences, max_results, per_course, cursor,
                    heap, count_processed, generated, scored_schedules>>
score_vars == <<score_prev, score_last>>
clock_vars == <<time_cache, clock_arg, clock_result>>
service_vars == <<data_cache, selection, filtered>>

(***************************************************************************)
(* Bounds of the model.                                                    *)
(***************************************************************************)
MaxSlots == 3        \* longest slot list handed to the conflict check
MaxSections == 2     \* most sections of one raw record besides its first
MaxCourses == 2      \* longest requested course list
MaxK == 3            \* largest max_results

(***************************************************************************)
(* Generic helpers.                                                        *)
(***************************************************************************)
Range(s) == {s[i] : i \in 1..Len(s)}

SeqsUpTo(S, n) == UNION {[1..m -> S] : m \in 0..n}

RECURSIVE Concat(_)
Concat(ss) == IF ss = <<>> THEN <<>> ELSE Head(ss) \o Concat(Tail(ss))

Min(S) == CHOOSE x \in S : \A y \in S : x <= y
Max(S) == CHOOSE x \in S : \A y \in S : x >= y

(***************************************************************************)
(* Clock times.                                                            *)
(***************************************************************************)
NaP == -100000                 \* a part of a time string int() rejects

EmptyStr == <<>>

\* str.replace(" ", "") on a days string
RECURSIVE StripSpaces(_)
StripSpaces(days) ==
    IF days = <<>> THEN <<>>
    ELSE IF Head(days) = " " THEN StripSpaces(Tail(days))
    ELSE <<Head(days)>> \o StripSpaces(Tail(days))

\* time_to_minutes: 0 for "", for a wrong number of parts and for a part
\* int() rejects; otherwise hours * 60 + minutes, with no range check.
time_to_minutes(time_str) ==
    IF time_str = EmptyStr THEN 0
    ELSE IF Len(time_str) # 2 THEN 0
    ELSE IF time_str[1] = NaP \/ time_str[2] = NaP THEN 0
    ELSE time_str[1] * 60 + time_str[2]

Weekdays == {"M", "T", "W", "R", "F"}

Slot(days, startTime, endTime) ==
    [days |-> days, startTime |-> startTime, endTime |-> endTime]

has_time_conflict_inclusive(time1, time2) ==
    LET days1 == Range(StripSpaces(time1.days))
        days2 == Range(StripSpaces(time2.days))
        start1 == time_to_minutes(time1.startTime)
        end1 == time_to_minutes(time1.endTime)
        start2 == time_to_minutes(time2.startTime)
        end2 == time_to_minutes(time2.endTime)
    IN  IF days1 \cap days2 = {} THEN FALSE
        ELSE IF start1 = 0 \/ end1 = 0 \/ start2 = 0 \/ end2 = 0 THEN FALSE
        ELSE start1 <= end2 /\ end1 >= start2

has_time_conflict_one_sided(time1, time2) ==
    LET days1 == Range(StripSpaces(time1.days))
        days2 == Range(StripSpaces(time2.days))
        start1 == time_to_minutes(time1.startTime)
        end1 == time_to_minutes(time1.endTime)
        start2 == time_to_minutes(time2.startTime)
        end2 == time_to_minutes(time2.endTime)
    IN  IF days1 \cap days2 = {} THEN FALSE
        ELSE IF start1 = 0 \/ end1 = 0 \/ start2 = 0 \/ end2 = 0 THEN FALSE
        ELSE start1 < end2

\* has_time_conflict: the day strings share a character, all four minute
\* values are truthy (non-zero), and the ranges overlap strictly.
has_time_conflict(time1, time2) ==
    LET days1 == Range(StripSpaces(time1.days))
        days2 == Range(StripSpaces(time2.days))
        start1 == time_to_minutes(time1.startTime)
        end1 == time_to_minutes(time1.endTime)
        start2 == time_to_minutes(time2.startTime)
        end2 == time_to_minutes(time2.endTime)
    IN  IF days1 \cap days2 = {} THEN FALSE
        ELSE IF start1 = 0 \/ end1 = 0 \/ start2 = 0 \/ end2 = 0 THEN FALSE
        ELSE start1 < end2 /\ end1 > start2

check_times_conflict(times_list, selected_times) ==
    \E i \in 1..Len(times_list) : \E j \in 1..Len(selected_times) :
        has_time_conflict(times_list[i], selected_times[j])

\* list.sort(key=lambda x: x[0]): a stable sort of <<start, end>> pairs
RECURSIVE InsertByStart(_, _)
InsertByStart(sorted, iv) ==
    IF sorted = <<>> THEN <<iv>>
    ELSE IF iv[1] < Head(sorted)[1] THEN <<iv>> \o sorted
    ELSE <<Head(sorted)>> \o InsertByStart(Tail(sorted), iv)

RECURSIVE SortByStart(_)
SortByStart(intervals) ==
    IF intervals = <<>> THEN <<>>
    ELSE InsertByStart(SortByStart(SubSeq(intervals, 1, Len(intervals) - 1)),
                       intervals[Len(intervals)])

\* day_groups[day]: the <<start, end>> pairs of the slots meeting on day,
\* in list order, slots with a falsy start or end left out
RECURSIVE DayGroup(_, _)
DayGroup_keeps_unknown(schedule_times, day) ==
    IF schedule_times = <<>> THEN <<>>
    ELSE LET time_info == Head(schedule_times)
             days == StripSpaces(time_info.days)
             start_time == time_to_minutes(time_info.startTime)
             end_time == time_to_minutes(time_info.endTime)
             n == Cardinality({i \in 1..Len(days) : days[i] = day})
             here == [i \in 1..n |-> <<start_time, end_time>>]
         IN  here \o DayGroup(Tail(schedule_times), day)

DayGroup(schedule_times, day) ==
    IF schedule_times = <<>> THEN <<>>
    ELSE LET time_info == Head(schedule_times)
             days == StripSpaces(time_info.days)
             start_time == time_to_minutes(time_info.startTime)
             end_time == time_to_minutes(time_info.endTime)
             n == Cardinality({i \in 1..Len(days) : days[i] = day})
             here == [i \in 1..n |-> <<start_time, end_time>>]
         IN  IF start_time = 0 \/ end_time = 0
             THEN DayGroup(Tail(schedule_times), day)
             ELSE here \o DayGroup(Tail(schedule_times), day)

AdjacentOverlap(intervals) ==
    \E i \in 1..(Len(intervals) - 1) :
        intervals[i][1] < intervals[i + 1][2] /\ intervals[i][2] > intervals[i + 1][1]

\* check_schedule_conflicts_fast: TRUE iff some weekday's sorted intervals
\* have an overlapping adjacent pair
check_schedule_conflicts_fast(schedule_times) ==
    IF Len(schedule_times) < 2 THEN FALSE
    ELSE \E day \in Weekdays :
            LET intervals == DayGroup(schedule_times, day)
            IN  Len(intervals) >= 2 /\ AdjacentOverlap(SortByStart(intervals))

(***************************************************************************)
(* Course normalizer: get_course_info over the raw catalog records of one  *)
(* courseId.  A raw record is [classSections: Seq(section)], a raw section *)
(* [enrollCode, typeInstruction, timeLocations: Seq(time_loc), instructors: *)
(* Seq(name)], a time_loc [days, beginTime, endTime].  An absent or None    *)
(* string is "" / EmptyStr.                                                *)
(***************************************************************************)
RawSection(code, type, time_locations) ==
    [enrollCode |-> code, typeInstruction |-> type, timeLocations |-> time_locations,
     instructors |-> <<>>]

\* the section with its instructors list set
TaughtBy(section, names) == [section EXCEPT !.instructors = names]

\* lines 495, 513, 526: the first instructor's name, "" without instructors
InstructorOf(section) ==
    IF section.instructors = <<>> THEN "" ELSE section.instructors[1]

TimeLoc(days, beginTime, endTime) ==
    [days |-> days, beginTime |-> beginTime, endTime |-> endTime]

\* str.strip() on a days string: leading and trailing blanks removed
RECURSIVE LStrip(_)
LStrip(days) ==
    IF days = <<>> THEN <<>>
    ELSE IF Head(days) = " " THEN LStrip(Tail(days))
    ELSE days

RECURSIVE RStrip(_)
RStrip(days) ==
    IF days = <<>> THEN <<>>
    ELSE IF days[Len(days)] = " " THEN RStrip(SubSeq(days, 1, Len(days) - 1))
    ELSE days

Strip(days) == RStrip(LStrip(days))

RECURSIVE format_time_info(_)
format_time_info_keeps_all(time_locations) ==
    IF time_locations = <<>> THEN <<>>
    ELSE LET time_loc == Head(time_locations)
             days == Strip(time_loc.days)
         IN  <<Slot(days, time_loc.beginTime, time_loc.endTime)>>
                 \o format_time_info(Tail(time_locations))

\* format_time_info: a time_loc becomes a slot of the times list only when
\* its stripped days, its beginTime and its endTime are all non-empty
format_time_info(time_locations) ==
    IF time_locations = <<>> THEN <<>>
    ELSE LET time_loc == Head(time_locations)
             days == Strip(time_loc.days)
             rest == format_time_info(Tail(time_locations))
         IN  IF days # <<>> /\ time_loc.beginTime # EmptyStr /\ time_loc.endTime # EmptyStr
             THEN <<Slot(days, time_loc.beginTime, time_loc.endTime)>> \o rest
             ELSE rest

IsLecture(section) == section.typeInstruction = "LEC"
NotLecture(section) == section.typeInstruction # "LEC"

\* index of the first section tagged LEC, 0 when there is none
FirstLectureIndex(sections) ==
    IF \E i \in 1..Len(sections) : IsLecture(sections[i])
    THEN Min({i \in 1..Len(sections) : IsLecture(sections[i])})
    ELSE 0

Keys(groups) == {groups[i].key : i \in 1..Len(groups)}

Group(key, lecture, sections, standalone) ==
    [key |-> key, lecture |-> lecture, sections |-> sections, isStandalone |-> standalone]

\* lines 366-392: one group per record that has a LEC section, keyed by the
\* lecture's enrollCode, a repeated key skipped; the group's sections are the
\* record's sections not tagged LEC
RECURSIVE GroupLectures(_, _)
GroupLectures_pools_later_records(records, groups) ==
    IF records = <<>> THEN groups
    ELSE LET sections == Head(records).classSections
             i == FirstLectureIndex(sections)
             pooled == Concat([r \in 1..Len(records) |-> records[r].classSections])
         IN  IF i # 0 /\ sections[i].enrollCode \notin Keys(groups)
             THEN GroupLectures(Tail(records),
                      Append(groups, Group(sections[i].enrollCode, sections[i],
                                           SelectSeq(pooled, NotLecture), FALSE)))
             ELSE GroupLectures(Tail(records), groups)

GroupLectures_keeps_repeats(records, groups) ==
    IF records = <<>> THEN groups
    ELSE LET sections == Head(records).classSections
             i == FirstLectureIndex(sections)
         IN  IF i # 0
             THEN GroupLectures(Tail(records),
                      Append(groups, Group(sections[i].enrollCode, sections[i],
                                           SelectSeq(sections, NotLecture), FALSE)))
             ELSE GroupLectures(Tail(records), groups)

GroupLectures(records, groups) ==
    IF records = <<>> THEN groups
    ELSE LET sections == Head(records).classSections
             i == FirstLectureIndex(sections)
         IN  IF i # 0 /\ sections[i].enrollCode \notin Keys(groups)
             THEN GroupLectures(Tail(records),
                      Append(groups, Group(sections[i].enrollCode, sections[i],
                                           SelectSeq(sections, NotLecture), FALSE)))
             ELSE GroupLectures(Tail(records), groups)

\* lines 396-402
RECURSIVE StandaloneSections(_)
StandaloneSections(records) ==
    IF records = <<>> THEN <<>>
    ELSE SelectSeq(Head(records).classSections, NotLecture)
             \o StandaloneSections(Tail(records))

\* lines 406-415: every non-LEC section with an enrollCode becomes its own group
RECURSIVE GroupStandalone(_, _)
GroupStandalone(sections, groups) ==
    IF sections = <<>> THEN groups
    ELSE LET section == Head(sections)
         IN  IF section.enrollCode # "" /\ section.enrollCode \notin Keys(groups)
             THEN GroupStandalone(Tail(sections),
                      Append(groups, Group(section.enrollCode, section, <<>>, TRUE)))
             ELSE GroupStandalone(Tail(sections), groups)

\* lines 364-426
lectures_with_sections(all_course_data) ==
    LET tagged == GroupLectures(all_course_data, <<>>)
        standalone_sections == StandaloneSections(all_course_data)
        standalone == IF tagged = <<>> /\ standalone_sections # <<>>
                      THEN GroupStandalone(standalone_sections, <<>>)
                      ELSE tagged
    IN  IF standalone = <<>> /\ Len(all_course_data) = 1
            /\ Len(all_course_data[1].classSections) = 1
        THEN LET only == all_course_data[1].classSections[1]
             IN  <<Group(only.enrollCode, only, <<>>, TRUE)>>
        ELSE standalone

\* lines 455-489
verify_section_belongs_to_lecture(section) ==
    IF section.typeInstruction = "LEC" THEN FALSE
    ELSE IF section.enrollCode = "" THEN FALSE
    ELSE TRUE

SectionInfo(code, instructor, times, lecture_code, standalone) ==
    [enrollCode |-> code, instructor |-> instructor, times |-> times,
     lectureEnrollCode |-> lecture_code, isStandalone |-> standalone]

RECURSIVE lecture_section_list(_, _, _)
lecture_section_list_keeps_timeless(sections, lecture_enroll_code, is_standalone) ==
    IF sections = <<>> THEN <<>>
    ELSE LET sec == Head(sections)
             rest == lecture_section_list(Tail(sections), lecture_enroll_code, is_standalone)
             sec_times == format_time_info(sec.timeLocations)
         IN  IF ~is_standalone /\ ~verify_section_belongs_to_lecture(sec) THEN rest
             ELSE <<SectionInfo(sec.enrollCode, InstructorOf(sec), sec_times,
                                lecture_enroll_code, FALSE)>> \o rest

\* lines 498-520: the group's sections that pass verification and have a
\* non-empty formatted times list
lecture_section_list(sections, lecture_enroll_code, is_standalone) ==
    IF sections = <<>> THEN <<>>
    ELSE LET sec == Head(sections)
             rest == lecture_section_list(Tail(sections), lecture_enroll_code, is_standalone)
             sec_times == format_time_info(sec.timeLocations)
         IN  IF ~is_standalone /\ ~verify_section_belongs_to_lecture(sec) THEN rest
             ELSE IF sec_times # <<>>
             THEN <<SectionInfo(sec.enrollCode, InstructorOf(sec), sec_times,
                                lecture_enroll_code, FALSE)>> \o rest
             ELSE rest

\* lines 523-534
LectureEntry(group) ==
    [enrollCode |-> group.key,
     instructor |-> InstructorOf(group.lecture),
     times |-> format_time_info(group.lecture.timeLocations),
     sections |-> lecture_section_list(group.sections, group.key, group.isStandalone),
     isStandalone |-> group.isStandalone,
     typeInstruction |-> group.lecture.typeInstruction]

\* lines 491-548: the flat section list, in group order
RECURSIVE all_sections_flat(_)
all_sections_flat(groups) ==
    IF groups = <<>> THEN <<>>
    ELSE LET group == Head(groups)
             entry == LectureEntry(group)
             own == IF group.isStandalone /\ entry.times # <<>>
                    THEN <<SectionInfo(group.key, entry.instructor, entry.times, "", TRUE)>>
                    ELSE <<>>
         IN  entry.sections \o own \o all_sections_flat(Tail(groups))

NoCourse == [found |-> FALSE, lectureSections |-> <<>>, sections |-> <<>>]

\* JSON null in place of a list: the value of "timeLocations" or of
\* "classSections" is None, which dict.get returns in place of its default.
\* The marker is a one-element list no catalog record can hold.
NoneTimeLocations == <<TimeLoc(<<"None">>, EmptyStr, EmptyStr)>>

NoneSections == <<RawSection("None", "None", <<>>)>>

\* get_course_info iterates None: 'for section in sections' (line 372) on a
\* record whose classSections is None, or 'for time_loc in time_locations'
\* (line 432) on a section whose timeLocations is None; format_time_info is
\* called on every group's lecture (line 494) and on every group section that
\* passes verification (line 508).  The TypeError is caught nowhere.
RaisesTypeError(all_course_data) ==
    \/ \E r \in 1..Len(all_course_data) : all_course_data[r].classSections = NoneSections
    \/ LET groups == lectures_with_sections(all_course_data)
       IN  \E g \in 1..Len(groups) :
               \/ groups[g].lecture.timeLocations = NoneTimeLocations
               \/ \E k \in 1..Len(groups[g].sections) :
                      /\ groups[g].isStandalone
                            \/ verify_section_belongs_to_lecture(groups[g].sections[k])
                      /\ groups[g].sections[k].timeLocations = NoneTimeLocations

\* get_course_info on the records get_all_course_data_by_id found
get_course_info(all_course_data) ==
    IF all_course_data = <<>> THEN NoCourse
    ELSE LET groups == lectures_with_sections(all_course_data)
         IN  [found |-> TRUE,
              lectureSections |-> [i \in 1..Len(groups) |-> LectureEntry(groups[i])],
              sections |-> all_sections_flat(groups)]

(***************************************************************************)
(* Combination generator: find_valid_combinations.                         *)
(***************************************************************************)
NoSection == SectionInfo("", "", <<>>, "", FALSE)

Combination(lecture_idx, lecture, has_section, section) ==
    [lectureIndex |-> lecture_idx, lecture |-> lecture,
     hasSection |-> has_section, section |-> section]

\* lines 227-248: the lecture's sections that do not conflict with it
RECURSIVE SectionCombinations(_, _, _)
SectionCombinations(lecture_idx, lecture, lecture_sections) ==
    IF lecture_sections = <<>> THEN <<>>
    ELSE LET section == Head(lecture_sections)
             conflicts == IF lecture.times # <<>> /\ section.times # <<>>
                          THEN check_times_conflict(lecture.times, section.times)
                          ELSE FALSE
             rest == SectionCombinations(lecture_idx, lecture, Tail(lecture_sections))
         IN  IF ~conflicts
             THEN <<Combination(lecture_idx, lecture, TRUE, section)>> \o rest
             ELSE rest

\* lines 208-250; lectureIndex is enumerate()'s index, from 0
RECURSIVE LectureCombinations(_, _)
LectureCombinations(lectures, lecture_idx) ==
    IF lecture_idx >= Len(lectures) THEN <<>>
    ELSE LET lecture == lectures[lecture_idx + 1]
         IN  (IF lecture.sections = <<>>
              THEN <<Combination(lecture_idx, lecture, FALSE, NoSection)>>
              ELSE SectionCombinations(lecture_idx, lecture, lecture.sections))
             \o LectureCombinations(lectures, lecture_idx + 1)

find_valid_combinations(all_course_data) ==
    LET info == get_course_info(all_course_data)
    IN  IF ~info.found THEN <<>>
        ELSE LectureCombinations(info.lectureSections, 0)

(***************************************************************************)
(* Exact rationals <<num, den>>, den > 0, in lowest terms: the values of   *)
(* the program's floats.                                                   *)
(***************************************************************************)
Abs(x) == IF x < 0 THEN -x ELSE x

RECURSIVE GCD(_, _)
GCD(a, b) == IF b = 0 THEN a ELSE GCD(b, a % b)

Rat(num, den) ==
    LET g == GCD(Abs(num), Abs(den))
        sign == IF den < 0 THEN -1 ELSE 1
    IN  <<sign * (num \div g), sign * (den \div g)>>

RInt(n) == <<n, 1>>
RZero == RInt(0)

RAdd(a, b) ==
    LET g == GCD(a[2], b[2])
    IN  Rat(a[1] * (b[2] \div g) + b[1] * (a[2] \div g), (a[2] \div g) * b[2])

RNeg(a) == <<-a[1], a[2]>>
RSub(a, b) == RAdd(a, RNeg(b))

RMul(a, b) ==
    LET g1 == GCD(Abs(a[1]), b[2])
        g2 == GCD(Abs(b[1]), a[2])
    IN  Rat((a[1] \div g1) * (b[1] \div g2), (a[2] \div g2) * (b[2] \div g1))

\* a / b for b # 0
RDiv(a, b) == RMul(a, Rat(b[2], b[1]))

RLess(a, b) ==
    LET g == GCD(a[2], b[2])
    IN  a[1] * (b[2] \div g) < b[1] * (a[2] \div g)

RAbs(a) == <<Abs(a[1]), a[2]>>
RMin(a, b) == IF RLess(b, a) THEN b ELSE a
RMax(a, b) == IF RLess(a, b) THEN b ELSE a

RECURSIVE Sum(_)
Sum(ns) == IF ns = <<>> THEN 0 ELSE Head(ns) + Sum(Tail(ns))

RECURSIVE RSum(_)
RSum(rs) == IF rs = <<>> THEN RZero ELSE RAdd(Head(rs), RSum(Tail(rs)))

(***************************************************************************)
(* Scoring function: score_schedule and its helpers.  A preference profile *)
(* is a record of all recognized options; an option that is absent holds   *)
(* the value the code's dict lookup returns for it.                       *)
(***************************************************************************)
get_all_times_from_combination(combo) ==
    combo.lecture.times \o (IF combo.hasSection THEN combo.section.times ELSE <<>>)

RECURSIVE AllTimes(_)
AllTimes(combos) ==
    IF combos = <<>> THEN <<>>
    ELSE get_all_times_from_combination(Head(combos)) \o AllTimes(Tail(combos))

StartMinutes(times) == [i \in 1..Len(times) |-> time_to_minutes(times[i].startTime)]
EndMinutes(times) == [i \in 1..Len(times) |-> time_to_minutes(times[i].endTime)]

HasStartAndEnd(t) == time_to_minutes(t.startTime) # 0 /\ time_to_minutes(t.endTime) # 0
HasStartString(t) == t.startTime # EmptyStr
HasEndString(t) == t.endTime # EmptyStr

\* lines 98-131
calculate_schedule_spread(combos) ==
    LET timed == SelectSeq(AllTimes(combos), HasStartAndEnd)
        all_start_times == StartMinutes(timed)
        all_end_times == EndMinutes(timed)
        n == Len(all_start_times)
        spread == Max(Range(all_end_times)) - Min(Range(all_start_times))
        squares == [i \in 1..n |-> all_start_times[i] * all_start_times[i]]
        \* sum((s - mean)^2) / n == (n * sum(s^2) - sum(s)^2) / n^2
        variance == Rat(n * Sum(squares) - Sum(all_start_times) * Sum(all_start_times), n * n)
    IN  IF combos = <<>> \/ n = 0 THEN RZero
        ELSE IF n > 1 THEN RAdd(RInt(spread), RMul(variance, Rat(1, 10)))
        ELSE RInt(spread)

\* lines 162-169 and 176-183: the mean over the start times of
\* max(0, 1 - |start - center| / width), a start adding nothing when width <= 0
Proximity(start_times, center, width) ==
    LET n == Len(start_times)
        term(i) == IF RLess(RZero, width)
                   THEN RMax(RZero, RSub(RInt(1),
                            RDiv(RAbs(RSub(RInt(start_times[i]), center)), width)))
                   ELSE RZero
    IN  RDiv(RSum([i \in 1..n |-> term(i)]), RInt(n))

\* lines 134-183; an absent preferred_start / preferred_end is EmptyStr
calculate_schedule_center_score(combos, preferred_start, preferred_end) ==
    LET all_times == AllTimes(combos)
        start_times == StartMinutes(SelectSeq(all_times, HasStartString))
        end_times == EndMinutes(SelectSeq(all_times, HasEndString))
        n == Len(start_times)
    IN  IF combos = <<>> \/ all_times = <<>> \/ n = 0 THEN RZero
        ELSE IF preferred_start # EmptyStr /\ preferred_end # EmptyStr
        THEN LET pref_start_min == time_to_minutes(preferred_start)
                 pref_end_min == time_to_minutes(preferred_end)
             IN  Proximity(start_times, Rat(pref_start_min + pref_end_min, 2),
                           Rat(pref_end_min - pref_start_min, 2))
        ELSE LET mean_start == Rat(Sum(start_times), n)
                 mean_end == IF end_times # <<>>
                             THEN Rat(Sum(end_times), Len(end_times))
                             ELSE mean_start
                 center == RDiv(RAdd(mean_start, mean_end), RInt(2))
                 total_spread == IF end_times # <<>>
                                 THEN Max(Range(end_times)) - Min(Range(start_times))
                                 ELSE 1
             IN  Proximity(start_times, center, RInt(total_spread))

WeekdayOrder == <<"M", "T", "W", "R", "F">>

CountOf(seq, x) == Cardinality({i \in 1..Len(seq) : seq[i] = x})

\* lines 374-382: day_times[day], the slots with a truthy start and end only;
\* the days string is read character by character, unstripped
RECURSIVE DayTimes(_, _)
DayTimes(all_times, day) ==
    IF all_times = <<>> THEN <<>>
    ELSE LET time_info == Head(all_times)
             start_time == time_to_minutes(time_info.startTime)
             end_time == time_to_minutes(time_info.endTime)
             n == CountOf(time_info.days, day)
         IN  (IF start_time # 0 /\ end_time # 0
              THEN [i \in 1..n |-> <<start_time, end_time>>]
              ELSE <<>>) \o DayTimes(Tail(all_times), day)

\* lines 390-393
DayGapMinutes(times_list) ==
    LET sorted_times == SortByStart(times_list)
        gap(i) == sorted_times[i + 1][1] - sorted_times[i][2]
    IN  IF Len(times_list) > 1
        THEN Sum([i \in 1..(Len(sorted_times) - 1) |-> IF gap(i) > 0 THEN gap(i) ELSE 0])
        ELSE 0

total_gap_minutes(all_times) ==
    Sum([d \in 1..5 |-> DayGapMinutes(DayTimes(all_times, WeekdayOrder[d]))])

\* lines 407-412
day_class_count(all_times, day) ==
    Sum([i \in 1..Len(all_times) |-> CountOf(all_times[i].days, day)])

\* number of slots whose start minute lies in lo..hi
CountStarts(all_times, lo, hi) ==
    Cardinality({i \in 1..Len(all_times) :
        LET start_min == time_to_minutes(all_times[i].startTime)
        IN  lo <= start_min /\ start_min <= hi})

\* start < limit, start > limit
CountStartsBefore(all_times, limit) ==
    Cardinality({i \in 1..Len(all_times) : time_to_minutes(all_times[i].startTime) < limit})

CountStartsAfter(all_times, limit) ==
    Cardinality({i \in 1..Len(all_times) : time_to_minutes(all_times[i].startTime) > limit})

score_centering(combos, prefs) ==
    IF prefs.spreadPreference = "centered"
    THEN RSub(RMul(calculate_schedule_center_score(combos, EmptyStr, EmptyStr), RInt(30)),
              RMul(calculate_schedule_spread(combos), Rat(1, 100)))
    ELSE RMin(RMul(calculate_schedule_spread(combos), Rat(5, 100)), RInt(30))

score_preferred_window(combos, prefs) ==
    IF prefs.preferredStartTime # EmptyStr /\ prefs.preferredEndTime # EmptyStr
    THEN RMul(calculate_schedule_center_score(combos, prefs.preferredStartTime,
                                              prefs.preferredEndTime), RInt(20))
    ELSE RZero

score_avoid_early(all_times, prefs) ==
    IF prefs.avoidEarlyMorning THEN RInt(-10 * CountStartsBefore(all_times, 540)) ELSE RZero

score_avoid_late(all_times, prefs) ==
    IF prefs.avoidLateEvening THEN RInt(-10 * CountStartsAfter(all_times, 1020)) ELSE RZero

score_free_days(all_times, prefs) ==
    LET days_with_classes ==
            {d \in Weekdays : \E i \in 1..Len(all_times) : d \in Range(all_times[i].days)}
    IN  IF prefs.prioritizeFreeDays
        THEN RInt(15 * (5 - Cardinality(days_with_classes)))
        ELSE RZero

score_gaps(all_times, prefs) ==
    LET total == total_gap_minutes(all_times)
    IN  IF ~prefs.minimizeGaps THEN RZero
        ELSE IF total > 0 THEN RNeg(RMin(Rat(total, 10), RInt(50)))
        ELSE RInt(20)

score_max_classes(all_times, prefs) ==
    LET cap == prefs.maxClassesPerDay
        excess(d) == LET count == day_class_count(all_times, WeekdayOrder[d])
                     IN  IF count > cap THEN count - cap ELSE 0
    IN  IF cap # 0 THEN RInt(-25 * Sum([d \in 1..5 |-> excess(d)])) ELSE RZero

score_time_of_day(all_times, prefs) ==
    IF prefs.preferredTimeOfDay = "morning"
    THEN RInt(8 * CountStartsBefore(all_times, 720))
    ELSE IF prefs.preferredTimeOfDay = "afternoon"
    THEN RInt(8 * CountStarts(all_times, 720, 1020))
    ELSE IF prefs.preferredTimeOfDay = "evening"
    THEN RInt(8 * CountStartsAfter(all_times, 1020))
    ELSE RZero

\* score_schedule(combinations, preferences, pre_extracted_times)
score_schedule(combos, prefs, all_times) ==
    IF combos = <<>> THEN RZero
    ELSE RSum(<<RInt(100),
                score_centering(combos, prefs),
                score_preferred_window(combos, prefs),
                score_avoid_early(all_times, prefs),
                score_avoid_late(all_times, prefs),
                score_free_days(all_times, prefs),
                score_gaps(all_times, prefs),
                score_max_classes(all_times, prefs),
                score_time_of_day(all_times, prefs)>>)

(***************************************************************************)
(* Schedule generation and the top-K selector.  The catalog maps a course  *)
(* id to the raw records get_all_course_data_by_id finds for it.  An       *)
(* element of itertools.product is named by its index tuple: element idx   *)
(* is the schedule <<per[1][idx[1]], ..., per[n][idx[n]]>>.                *)
(***************************************************************************)
RECURSIVE all_combinations_per_course(_, _)
all_combinations_per_course_skips_unschedulable(catalog, ids) ==
    IF ids = <<>> THEN <<>>
    ELSE LET combos == find_valid_combinations(catalog[Head(ids)])
         IN  (IF combos = <<>> THEN <<>> ELSE <<combos>>)
                 \o all_combinations_per_course(catalog, Tail(ids))

\* lines 460-471 / 264-275: find_valid_combinations of every requested course
all_combinations_per_course(catalog, ids) ==
    IF ids = <<>> THEN <<>>
    ELSE <<find_valid_combinations(catalog[Head(ids)])>>
             \o all_combinations_per_course(catalog, Tail(ids))

\* lines 462-463 / 266-267
SomeCourseUnschedulable(per) == \E i \in 1..Len(per) : per[i] = <<>>

Exhausted == <<0>>

FirstIdx(per) == [i \in 1..Len(per) |-> 1]

\* the product element after idx: the last position counts fastest
NextIdx(per, idx) ==
    LET open == {i \in 1..Len(per) : idx[i] < Len(per[i])}
    IN  IF open = {} THEN Exhausted
        ELSE LET p == Max(open)
             IN  [i \in 1..Len(per) |->
                     IF i < p THEN idx[i] ELSE IF i = p THEN idx[i] + 1 ELSE 1]

ScheduleAt(per, idx) == [i \in 1..Len(per) |-> per[i][idx[i]]]

\* lines 484-486 / 496-498: the (lecture enrollCode, section enrollCode) key
ComboKey(combo) ==
    <<combo.lecture.enrollCode,
      IF combo.hasSection THEN <<combo.section.enrollCode>> ELSE <<>> >>

\* lines 480-488, 499: combo_indices[i][key], the last index holding the key
combo_index_by_key(combos, combo) ==
    Max({idx \in 1..Len(combos) : ComboKey(combos[idx]) = ComboKey(combo)})

\* line 286: list.index(combo), the first index holding an equal combination
combo_index_by_value(combos, combo) ==
    Min({idx \in 1..Len(combos) : combos[idx] = combo})

\* lines 493-502: the pre-extracted times of the product element
optimizer_schedule_times(per, idx) ==
    Concat([i \in 1..Len(per) |->
        get_all_times_from_combination(per[i][combo_index_by_key(per[i], per[i][idx[i]])])])

\* lines 283-288
generator_schedule_times(per, idx) ==
    Concat([i \in 1..Len(per) |->
        get_all_times_from_combination(per[i][combo_index_by_value(per[i], per[i][idx[i]])])])

\* lines 281-296: the loop over the product from idx on; limit 0 is None
RECURSIVE GenerateFrom(_, _, _, _)
GenerateFrom(per, idx, limit, all_schedules) ==
    IF idx = Exhausted THEN all_schedules
    ELSE IF ~check_schedule_conflicts_fast(generator_schedule_times(per, idx))
    THEN IF limit # 0 /\ Len(all_schedules) + 1 >= limit
         THEN Append(all_schedules, idx)
         ELSE GenerateFrom(per, NextIdx(per, idx), limit, Append(all_schedules, idx))
    ELSE GenerateFrom(per, NextIdx(per, idx), limit, all_schedules)

\* generate_all_schedule_combinations(course_ids, max_results): the index
\* tuples of the schedules returned, in order
generate_all_schedule_combinations(catalog, ids, limit) ==
    LET per == all_combinations_per_course(catalog, ids)
    IN  IF SomeCourseUnschedulable(per) THEN <<>>
        ELSE GenerateFrom(per, FirstIdx(per), limit, <<>>)

(***************************************************************************)
(* heapq over (-score, count_processed, schedule, times) tuples.  The list *)
(* is kept in the order heappop would return its entries; heap[1] is       *)
(* Python's heap[0].                                                       *)
(***************************************************************************)
HeapEntry(neg_score, count, idx, times) ==
    [neg_score |-> neg_score, count |-> count, idx |-> idx, times |-> times]

EntryLess_later_first(a, b) ==
    \/ RLess(a.neg_score, b.neg_score)
    \/ a.neg_score = b.neg_score /\ a.count > b.count

\* tuple comparison on the first two fields
EntryLess(a, b) ==
    \/ RLess(a.neg_score, b.neg_score)
    \/ a.neg_score = b.neg_score /\ a.count < b.count

RECURSIVE heappush(_, _)
heappush(h, entry) ==
    IF h = <<>> THEN <<entry>>
    ELSE IF EntryLess(entry, Head(h)) THEN <<entry>> \o h
    ELSE <<Head(h)>> \o heappush(Tail(h), entry)

\* heapreplace: pop the smallest entry, then push
heapreplace(h, entry) == heappush(Tail(h), entry)

\* list.sort(key=score, reverse=True): stable, best score first
RECURSIVE InsertByScore(_, _)
InsertByScore_ascending(sorted, item) ==
    IF sorted = <<>> THEN <<item>>
    ELSE IF RLess(item.score, Head(sorted).score) THEN <<item>> \o sorted
    ELSE <<Head(sorted)>> \o InsertByScore(Tail(sorted), item)

InsertByScore(sorted, item) ==
    IF sorted = <<>> THEN <<item>>
    ELSE IF RLess(Head(sorted).score, item.score) THEN <<item>> \o sorted
    ELSE <<Head(sorted)>> \o InsertByScore(Tail(sorted), item)

RECURSIVE SortByScore(_)
SortByScore(items) ==
    IF items = <<>> THEN <<>>
    ELSE InsertByScore(SortByScore(SubSeq(items, 1, Len(items) - 1)), items[Len(items)])

\* lines 527-534: the heap popped into {schedule, score} results
PopAll(h) == [i \in 1..Len(h) |-> [schedule |-> h[i].idx, score |-> RNeg(h[i].neg_score)]]

(***************************************************************************)
(* Inputs of the conflict check.                                           *)
(***************************************************************************)
DayStrings == {<<"M">>, <<"M", " ", "W">>, <<"T">>}

\* <<start, end>> clock-time strings with start < end, both in [00:00, 24:00)
ClockRanges == {<< <<0, 0>>, <<1, 0>> >>, << <<0, 30>>, <<1, 30>> >>,
                << <<9, 0>>, <<9, 50>> >>, << <<9, 30>>, <<10, 20>> >>,
                << <<9, 50>>, <<10, 40>> >>}

WellFormedSlots == {Slot(d, r[1], r[2]) : d \in DayStrings, r \in ClockRanges}

\* slots whose start or end is empty or is not two integer parts
UnknownTimeSlots == {Slot(<<"M">>, EmptyStr, <<9, 50>>),
                     Slot(<<"M">>, <<9, 0>>, EmptyStr),
                     Slot(<<"M">>, <<NaP, 0>>, <<10, 0>>),
                     Slot(<<"M", " ", "W">>, <<9>>, <<10, 0, 0>>)}

\* slots whose day strings hold a letter that is no weekday of M T W R F
WeekendSlots == {Slot(<<"M", "S">>, <<9, 0>>, <<9, 50>>),
                 Slot(<<"T", "S">>, <<9, 30>>, <<10, 20>>)}

SlotPool == WellFormedSlots \cup UnknownTimeSlots \cup WeekendSlots

(***************************************************************************)
(* The conflict check as a state machine: a slot list is handed in, and    *)
(* has_time_conflict (on its first two slots) and                          *)
(* check_schedule_conflicts_fast (on the list) are called on it.           *)
(***************************************************************************)
IdleNormalizer ==
    /\ raw_records = <<>>
    /\ course_info = <<>>
    /\ combinations = <<>>

IdleOptimizer ==
    /\ course_ids = <<>>
    /\ preferences = <<>>
    /\ max_results = 0
    /\ per_course = <<>>
    /\ cursor = <<>>
    /\ heap = <<>>
    /\ count_processed = 0
    /\ generated = <<>>
    /\ scored_schedules = <<>>

IdleConflict ==
    /\ slots = <<>>
    /\ pair_result = <<>>
    /\ fast_result = <<>>

IdleScore ==
    /\ score_prev = <<>>
    /\ score_last = <<>>

IdleClock ==
    /\ time_cache = {}
    /\ clock_arg = <<>>
    /\ clock_result = <<>>

IdleService ==
    /\ data_cache = {}
    /\ selection = <<>>
    /\ filtered = <<>>

InitConflict ==
    /\ pc = "input"
    /\ slots \in SeqsUpTo(SlotPool, MaxSlots)
    /\ pair_result = <<>>
    /\ fast_result = <<>>
    /\ IdleNormalizer
    /\ IdleOptimizer
    /\ IdleScore
    /\ IdleClock
    /\ IdleService

HasTimeConflict ==
    /\ pc = "input"
    /\ Len(slots) >= 2
    /\ pair_result = <<>>
    /\ pair_result' = <<has_time_conflict(slots[1], slots[2])>>
    /\ UNCHANGED <<pc, slots, fast_result, normalizer_vars, optimizer_vars,
                 score_vars, clock_vars, service_vars>>

CheckScheduleConflictsFast ==
    /\ pc = "input"
    /\ fast_result = <<>>
    /\ fast_result' = <<check_schedule_conflicts_fast(slots)>>
    /\ UNCHANGED <<pc, slots, pair_result, normalizer_vars, optimizer_vars,
                 score_vars, clock_vars, service_vars>>

NextConflict == HasTimeConflict \/ CheckScheduleConflictsFast

SpecConflict == InitConflict /\ [][NextConflict]_vars

(***************************************************************************)
(* The normalizer as a state machine: the catalog holds the raw records of *)
(* one courseId; get_course_info and then find_valid_combinations are      *)
(* called on it.                                                           *)
(***************************************************************************)
LocA == TimeLoc(<<" ", "M", " ", "W", " ">>, <<9, 0>>, <<9, 50>>)
LocB == TimeLoc(<<"M">>, <<9, 30>>, <<10, 20>>)
LocC == TimeLoc(<<"T">>, <<9, 0>>, <<9, 50>>)
LocMidnight == TimeLoc(<<"M">>, <<0, 0>>, <<9, 30>>)
LocNoBegin == TimeLoc(<<"M">>, EmptyStr, <<9, 50>>)

RawSectionPool ==
    {TaughtBy(RawSection("L1", "LEC", <<LocA>>), <<"Alice">>),
     RawSection("L1", "LEC", <<LocNoBegin>>),
     RawSection("L2", "LEC", <<LocB>>),
     TaughtBy(RawSection("S1", "DIS", <<LocB>>), <<"Alice", "Bob">>),
     TaughtBy(RawSection("S2", "DIS", <<LocC>>), <<"Bob">>),
     RawSection("S3", "DIS", <<LocMidnight>>),
     RawSection("S4", "DIS", <<>>),
     RawSection("S5", "DIS", <<LocNoBegin, LocC>>),
     RawSection("", "DIS", <<LocC>>),
     RawSection("S1", "DIS", <<LocC>>),
     RawSection("S7", "DIS", NoneTimeLocations)}

OtherRecordSectionPool ==
    {RawSection("L1", "LEC", <<LocB>>),
     TaughtBy(RawSection("L3", "LEC", <<LocC>>), <<"Bob">>),
     TaughtBy(RawSection("S6", "DIS", <<LocC>>), <<"Alice">>)}

RawRecord(sections) == [classSections |-> sections]

\* the records of one courseId: none (unknown course), one, or two, or one
\* whose classSections is None
RawCourses ==
    LET first == {RawRecord(ss) : ss \in SeqsUpTo(RawSectionPool, 1 + MaxSections)}
        other == {RawRecord(ss) : ss \in SeqsUpTo(OtherRecordSectionPool, 2)}
    IN  {<<>>} \cup {<<r>> : r \in first} \cup {<<r, o>> : r \in first, o \in other}
        \cup {<<RawRecord(NoneSections)>>}

InitNormalizer ==
    /\ pc = "input"
    /\ raw_records \in RawCourses
    /\ course_info = <<>>
    /\ combinations = <<>>
    /\ IdleConflict
    /\ IdleOptimizer
    /\ IdleScore
    /\ IdleClock
    /\ IdleService

GetCourseInfo ==
    /\ pc = "input"
    /\ IF RaisesTypeError(raw_records)
       THEN /\ pc' = "raised"
            /\ UNCHANGED course_info
       ELSE /\ course_info' = <<get_course_info(raw_records)>>
            /\ pc' = "normalized"
    /\ UNCHANGED <<raw_records, combinations, conflict_vars, optimizer_vars,
                 score_vars, clock_vars, service_vars>>

FindValidCombinations ==
    /\ pc = "normalized"
    /\ combinations' = <<find_valid_combinations(raw_records)>>
    /\ pc' = "combined"
    /\ UNCHANGED <<raw_records, course_info, conflict_vars, optimizer_vars,
                 score_vars, clock_vars, service_vars>>

NextNormalizer == GetCourseInfo \/ FindValidCombinations

SpecNormalizer == InitNormalizer /\ [][NextNormalizer]_vars

(***************************************************************************)
(* The optimizer as a state machine over a catalog of nine courses:         *)
(*   A  one lecture (M W F 10:00) with two discussion sections on Tuesday  *)
(*   B  one lecture on Tuesday overlapping both of A's sections            *)
(*   C  three lecture offerings, Thursday morning, afternoon and evening   *)
(*   D  one lecture starting at 00:00 that runs into A's lecture           *)
(*   E  one lecture whose only section collides with it                    *)
(*   F  two lecture offerings at the same time                             *)
(*   G  one lecture listed with the same Monday meeting twice (two rooms)  *)
(*   H  one lecture with two sections that carry the same enrollCode       *)
(*   U  not in the catalog                                                 *)
(* A request is a course list, a preference profile and max_results.       *)
(***************************************************************************)
Lecture(code, days, begin, end) == RawSection(code, "LEC", <<TimeLoc(days, begin, end)>>)
Discussion(code, days, begin, end) == RawSection(code, "DIS", <<TimeLoc(days, begin, end)>>)

Catalog ==
    [A |-> <<RawRecord(<<Lecture("A1", <<"M", "W", "F">>, <<10, 0>>, <<10, 50>>),
                         Discussion("A2", <<"T">>, <<9, 0>>, <<9, 50>>),
                         Discussion("A3", <<"T">>, <<9, 30>>, <<10, 20>>)>>)>>,
     B |-> <<RawRecord(<<Lecture("B1", <<"T">>, <<9, 20>>, <<10, 10>>)>>)>>,
     C |-> <<RawRecord(<<Lecture("C1", <<"R">>, <<14, 0>>, <<14, 50>>)>>),
             RawRecord(<<Lecture("C2", <<"R">>, <<8, 0>>, <<8, 50>>)>>),
             RawRecord(<<Lecture("C3", <<"R">>, <<18, 0>>, <<18, 50>>)>>)>>,
     D |-> <<RawRecord(<<Lecture("D1", <<"M">>, <<0, 0>>, <<10, 30>>)>>)>>,
     E |-> <<RawRecord(<<Lecture("E1", <<"F">>, <<9, 0>>, <<9, 50>>),
                         Discussion("E2", <<"F">>, <<9, 0>>, <<9, 50>>)>>)>>,
     F |-> <<RawRecord(<<Lecture("F1", <<"R">>, <<11, 0>>, <<11, 50>>)>>),
             RawRecord(<<Lecture("F2", <<"R">>, <<11, 0>>, <<11, 50>>)>>)>>,
     G |-> <<RawRecord(<<RawSection("G1", "LEC",
                             <<TimeLoc(<<"M">>, <<13, 0>>, <<13, 50>>),
                               TimeLoc(<<"M">>, <<13, 0>>, <<13, 50>>)>>)>>)>>,
     H |-> <<RawRecord(<<Lecture("H1", <<"W">>, <<15, 0>>, <<15, 50>>),
                         Discussion("H2", <<"T">>, <<9, 0>>, <<9, 50>>),
                         Discussion("H2", <<"R">>, <<16, 0>>, <<16, 50>>)>>)>>,
     U |-> <<>>]

CourseIds == DOMAIN Catalog

\* the requested course lists: every list of up to MaxCourses courses; G,
\* whose only combination collides with itself, is requested alone
Requests == SeqsUpTo(CourseIds \ {"G"}, MaxCourses) \cup {<<"G">>}

\* preferences == {}: every option at the value its lookup defaults to
NoPreferences ==
    [spreadPreference |-> "centered",
     preferredStartTime |-> EmptyStr,
     preferredEndTime |-> EmptyStr,
     avoidEarlyMorning |-> FALSE,
     avoidLateEvening |-> FALSE,
     prioritizeFreeDays |-> FALSE,
     minimizeGaps |-> FALSE,
     maxClassesPerDay |-> 0,
     preferredTimeOfDay |-> ""]

PreferenceProfiles ==
    {NoPreferences,
     [NoPreferences EXCEPT !.spreadPreference = "spread",
                           !.avoidEarlyMorning = TRUE,
                           !.prioritizeFreeDays = TRUE,
                           !.preferredTimeOfDay = "afternoon"],
     [NoPreferences EXCEPT !.preferredStartTime = <<9, 0>>,
                           !.preferredEndTime = <<15, 0>>,
                           !.avoidLateEvening = TRUE,
                           !.minimizeGaps = TRUE,
                           !.maxClassesPerDay = 1,
                           !.preferredTimeOfDay = "morning"]}

Init ==
    /\ pc = "input"
    /\ course_ids \in Requests
    /\ preferences \in PreferenceProfiles
    /\ max_results \in 0..MaxK
    /\ per_course = <<>>
    /\ cursor = <<>>
    /\ heap = <<>>
    /\ count_processed = 0
    /\ generated = <<>>
    /\ scored_schedules = <<>>
    /\ IdleConflict
    /\ IdleNormalizer
    /\ IdleScore
    /\ IdleClock
    /\ IdleService

request_vars == <<course_ids, preferences, max_results>>

\* generate_all_schedule_combinations(course_ids), called before the
\* optimization of the same request
GenerateAllScheduleCombinations ==
    /\ pc = "input"
    /\ generated = <<>>
    /\ generated' = <<generate_all_schedule_combinations(Catalog, course_ids, 0)>>
    /\ UNCHANGED <<pc, request_vars, per_course, cursor, heap, count_processed,
                   scored_schedules, conflict_vars, normalizer_vars,
                   score_vars, clock_vars, service_vars>>

\* optimize_schedules, lines 453-490: the early returns and the combinations
OptimizeStart ==
    /\ pc = "input"
    /\ LET per == all_combinations_per_course(Catalog, course_ids)
       IN  IF course_ids = <<>> \/ SomeCourseUnschedulable(per)
           THEN /\ pc' = "done"
                /\ UNCHANGED <<per_course, cursor>>
           ELSE /\ pc' = "streaming"
                /\ per_course' = per
                /\ cursor' = FirstIdx(per)
    /\ UNCHANGED <<request_vars, heap, count_processed, generated, scored_schedules,
                   conflict_vars, normalizer_vars,
                   score_vars, clock_vars, service_vars>>

\* lines 491-506: the next product element conflicts and is skipped
OptimizeSkipConflict ==
    /\ pc = "streaming"
    /\ cursor # Exhausted
    /\ check_schedule_conflicts_fast(optimizer_schedule_times(per_course, cursor))
    /\ cursor' = NextIdx(per_course, cursor)
    /\ UNCHANGED <<pc, request_vars, per_course, heap, count_processed, generated,
                   scored_schedules, conflict_vars, normalizer_vars,
                   score_vars, clock_vars, service_vars>>

\* lines 491-521: the next product element is valid; it is scored and offered
\* to the heap.  With max_results = 0 the else branch reads heap[0] of an
\* empty list and raises IndexError.
OptimizeCandidate ==
    /\ pc = "streaming"
    /\ cursor # Exhausted
    /\ LET schedule_times == optimizer_schedule_times(per_course, cursor)
           score == score_schedule(ScheduleAt(per_course, cursor), preferences, schedule_times)
           entry == HeapEntry(RNeg(score), count_processed + 1, cursor, schedule_times)
       IN  /\ ~check_schedule_conflicts_fast(schedule_times)
           /\ count_processed' = count_processed + 1
           /\ IF Len(heap) < max_results
              THEN /\ heap' = heappush(heap, entry)
                   /\ pc' = "streaming"
              ELSE IF heap = <<>>
              THEN /\ heap' = heap
                   /\ pc' = "raised"
              ELSE IF RLess(entry.neg_score, heap[1].neg_score)
              THEN /\ heap' = heapreplace(heap, entry)
                   /\ pc' = "streaming"
              ELSE /\ heap' = heap
                   /\ pc' = "streaming"
    /\ cursor' = NextIdx(per_course, cursor)
    /\ UNCHANGED <<request_vars, per_course, generated, scored_schedules,
                   conflict_vars, normalizer_vars,
                   score_vars, clock_vars, service_vars>>

\* lines 523-539: the heap is popped and the results sorted best first
OptimizeFinish ==
    /\ pc = "streaming"
    /\ cursor = Exhausted
    /\ scored_schedules' = SortByScore(PopAll(heap))
    /\ heap' = <<>>
    /\ pc' = "done"
    /\ UNCHANGED <<request_vars, per_course, cursor, count_processed, generated,
                   conflict_vars, normalizer_vars,
                   score_vars, clock_vars, service_vars>>

Next ==
    \/ GenerateAllScheduleCombinations
    \/ OptimizeStart
    \/ OptimizeSkipConflict
    \/ OptimizeCandidate
    \/ OptimizeFinish

Spec == Init /\ [][Next]_vars

(***************************************************************************)
(* The data model's reading of a slot: the weekdays it meets on and its    *)
(* start and end in minutes since midnight (00:00 is minute 0).            *)
(***************************************************************************)
IsClockTime(time_str) ==
    /\ Len(time_str) = 2
    /\ time_str[1] \in 0..23
    /\ time_str[2] \in 0..59

Minute(time_str) == time_str[1] * 60 + time_str[2]

IsTimeSlot(t) ==
    /\ IsClockTime(t.startTime)
    /\ IsClockTime(t.endTime)
    /\ Minute(t.startTime) < Minute(t.endTime)

daysOfWeek(t) == Range(t.days) \cap Weekdays

overlaps(a, b) ==
    /\ daysOfWeek(a) \cap daysOfWeek(b) # {}
    /\ Minute(a.startTime) < Minute(b.endTime)
    /\ Minute(b.startTime) < Minute(a.endTime)

\* the start or end string is empty, or is not two parts int() accepts
Unparsable(time_str) ==
    \/ time_str = EmptyStr
    \/ Len(time_str) # 2
    \/ \E i \in 1..Len(time_str) : time_str[i] = NaP

TimeUnknown(t) == Unparsable(t.startTime) \/ Unparsable(t.endTime)

RECURSIVE KnownOnly(_)
KnownOnly(times) ==
    IF times = <<>> THEN <<>>
    ELSE IF TimeUnknown(Head(times)) THEN KnownOnly(Tail(times))
    ELSE <<Head(times)>> \o KnownOnly(Tail(times))

\* C6: for two slots with start in [0,1440) and start < end, has_time_conflict
\* is true iff they share a weekday and start(a) < end(b) and start(b) < end(a),
\* slots starting at 00:00 included.
C6_ConflictIffOverlap ==
    (pair_result # <<>> /\ IsTimeSlot(slots[1]) /\ IsTimeSlot(slots[2]))
        => (pair_result[1] <=> overlaps(slots[1], slots[2]))

\* C7: a slot whose start or end time is empty, missing or unparsable never
\* conflicts: has_time_conflict is false when either argument is such a slot,
\* and check_schedule_conflicts_fast answers as it does on the list without
\* such slots.
C7_UnknownTimeNeverConflicts ==
    /\ (pair_result # <<>> /\ (TimeUnknown(slots[1]) \/ TimeUnknown(slots[2])))
          => pair_result[1] = FALSE
    /\ fast_result # <<>>
          => fast_result[1] = check_schedule_conflicts_fast(KnownOnly(slots))

\* a list of two overlapping slots around a slot with an unparsable start
\* has been checked both ways
C7_Witness ==
    /\ Len(slots) = 3
    /\ TimeUnknown(slots[2])
    /\ ~TimeUnknown(slots[1]) /\ ~TimeUnknown(slots[3])
    /\ pair_result = <<FALSE>>
    /\ fast_result = <<TRUE>>

\* two slots overlap in the data model's sense; a slot without a clock time
\* overlaps nothing
SlotsOverlap(a, b) == IsTimeSlot(a) /\ IsTimeSlot(b) /\ overlaps(a, b)

TimesOverlap(times1, times2) ==
    \E i \in 1..Len(times1) : \E j \in 1..Len(times2) : SlotsOverlap(times1[i], times2[j])

\* a time_loc that lacks its days, its beginTime or its endTime
LacksField(time_loc) ==
    Strip(time_loc.days) = <<>> \/ time_loc.beginTime = EmptyStr \/ time_loc.endTime = EmptyStr

AsSlot(time_loc) == Slot(Strip(time_loc.days), time_loc.beginTime, time_loc.endTime)

\* C8: a time slot of a lecture or section whose days, beginTime or endTime
\* is empty or missing is still retained in that offering's times list in the
\* normalized course.
C8_IncompleteSlotRetained ==
    course_info # <<>> =>
        LET groups == lectures_with_sections(raw_records)
            lectures == course_info[1].lectureSections
        IN  \A i \in 1..Len(lectures) :
                /\ \A k \in 1..Len(groups[i].lecture.timeLocations) :
                      LacksField(groups[i].lecture.timeLocations[k])
                          => AsSlot(groups[i].lecture.timeLocations[k]) \in Range(lectures[i].times)
                /\ \A j \in 1..Len(lectures[i].sections) :
                      \A sec \in Range(groups[i].sections) :
                          sec.enrollCode = lectures[i].sections[j].enrollCode
                              => \A k \in 1..Len(sec.timeLocations) :
                                    LacksField(sec.timeLocations[k])
                                        => \E sj \in 1..Len(lectures[i].sections) :
                                              /\ lectures[i].sections[sj].enrollCode = sec.enrollCode
                                              /\ AsSlot(sec.timeLocations[k])
                                                     \in Range(lectures[i].sections[sj].times)

\* a raw section none of whose time_locs has days, beginTime and endTime
NoKnownTimes(section) ==
    \A k \in 1..Len(section.timeLocations) : LacksField(section.timeLocations[k])

\* C9: a secondary section that has no known meeting times is always
\* selectable: for every lecture whose raw record contains such a section,
\* find_valid_combinations emits a combination pairing the lecture with it.
C9_TimelessSectionSelectable ==
    combinations # <<>> =>
        LET groups == lectures_with_sections(raw_records)
        IN  \A i \in 1..Len(groups) :
                \A sec \in Range(groups[i].sections) :
                    (~groups[i].isStandalone /\ sec.enrollCode # "" /\ NoKnownTimes(sec))
                        => \E c \in 1..Len(combinations[1]) :
                              /\ combinations[1][c].lecture.enrollCode = groups[i].key
                              /\ combinations[1][c].hasSection
                              /\ combinations[1][c].section.enrollCode = sec.enrollCode

\* C10: for each lecture that has secondary sections, find_valid_combinations
\* emits (lecture, s) for exactly those sections s of that lecture whose time
\* slots overlap none of the lecture's own; it never pairs a lecture with
\* another lecture's section, and every emitted combination is internally
\* conflict-free.
C10_ExactlyNonOverlappingOwnSections ==
    combinations # <<>> =>
        LET lectures == course_info[1].lectureSections
            combos == combinations[1]
        IN  /\ \A i \in 1..Len(lectures) : \A j \in 1..Len(lectures[i].sections) :
                  (\E c \in 1..Len(combos) :
                      /\ combos[c].lectureIndex = i - 1
                      /\ combos[c].hasSection
                      /\ combos[c].section = lectures[i].sections[j])
                  <=> ~TimesOverlap(lectures[i].times, lectures[i].sections[j].times)
            /\ \A c \in 1..Len(combos) :
                  /\ combos[c].lecture = lectures[combos[c].lectureIndex + 1]
                  /\ combos[c].hasSection =>
                        /\ combos[c].section \in Range(combos[c].lecture.sections)
                        /\ combos[c].section.lectureEnrollCode = combos[c].lecture.enrollCode
                        /\ ~TimesOverlap(combos[c].lecture.times, combos[c].section.times)

\* the same statement for courses none of whose slots starts at 00:00
StartsAtMidnight(section) ==
    \E k \in 1..Len(section.timeLocations) : section.timeLocations[k].beginTime = <<0, 0>>

NoMidnightStart ==
    \A r \in 1..Len(raw_records) : \A sec \in Range(raw_records[r].classSections) :
        ~StartsAtMidnight(sec)

Sanity_C10_WithoutMidnight == NoMidnightStart => C10_ExactlyNonOverlappingOwnSections


(***************************************************************************)
(* Claims about the optimizer.                                             *)
(***************************************************************************)
\* the combinations a schedule of the current request stands for
RequestCombinations == all_combinations_per_course(Catalog, course_ids)

ScheduleTimes(idx) == AllTimes(ScheduleAt(RequestCombinations, idx))

ScoreOf(idx) ==
    score_schedule(ScheduleAt(RequestCombinations, idx), preferences,
                   optimizer_schedule_times(RequestCombinations, idx))

\* the full, unbounded generation for the current request
AllValid == generate_all_schedule_combinations(Catalog, course_ids, 0)

Returned == {scored_schedules[i].schedule : i \in 1..Len(scored_schedules)}

NoOverlapWithin(times) ==
    \A i, j \in 1..Len(times) : i < j => ~SlotsOverlap(times[i], times[j])

\* idx1 comes before idx2 in the order of the cross product
GeneratedBefore(idx1, idx2) ==
    \E p \in 1..Len(idx1) :
        /\ idx1[p] < idx2[p]
        /\ \A q \in 1..(p - 1) : idx1[q] = idx2[q]

BestFirst ==
    \A i \in 1..(Len(scored_schedules) - 1) :
        ~RLess(scored_schedules[i].score, scored_schedules[i + 1].score)

\* C1: for 1 <= k <= V, optimize_schedules returns exactly the k
\* highest-scoring valid schedules of the full generation, best first: no
\* valid schedule left out scores strictly higher than a returned one.
\* (Stated for a non-empty course list; the empty list is C3's case.)
C1_TopKOfFullGeneration ==
    (pc = "done" /\ course_ids # <<>> /\ 1 <= max_results /\ max_results <= Len(AllValid)) =>
        /\ Len(scored_schedules) = max_results
        /\ Returned \subseteq Range(AllValid)
        /\ BestFirst
        /\ \A v \in Range(AllValid) \ Returned : \A r \in Returned :
              ~RLess(ScoreOf(r), ScoreOf(v))

\* C2: every schedule returned by optimize_schedules or by
\* generate_all_schedule_combinations is valid: no two of its time slots
\* share a weekday and overlap.
C2_ReturnedSchedulesValid ==
    /\ pc = "done" => \A idx \in Returned : NoOverlapWithin(ScheduleTimes(idx))
    /\ generated # <<>> => \A idx \in Range(generated[1]) : NoOverlapWithin(ScheduleTimes(idx))

\* no requested course has two combinations with the same
\* (lecture enrollCode, section enrollCode) key
KeysDistinct ==
    \A i \in 1..Len(RequestCombinations) :
        \A a, b \in 1..Len(RequestCombinations[i]) :
            a # b => ComboKey(RequestCombinations[i][a]) # ComboKey(RequestCombinations[i][b])

\* the same statement for requests without the course that starts at 00:00
\* and without repeated combination keys
Sanity_C2_WithoutMidnight ==
    ("D" \notin Range(course_ids) /\ KeysDistinct) => C2_ReturnedSchedulesValid

\* C3: optimize_schedules returns an empty sequence, raising nothing, when
\* courseIds is empty or some requested course is unknown or has no valid
\* combination; and it never returns a schedule covering only some of the
\* requested courses.
RequestBlocked ==
    \/ course_ids = <<>>
    \/ \E i \in 1..Len(course_ids) :
          \/ Catalog[course_ids[i]] = <<>>
          \/ find_valid_combinations(Catalog[course_ids[i]]) = <<>>

C3_BlockedRequestReturnsEmpty ==
    /\ RequestBlocked => (pc \in {"input", "done"} /\ scored_schedules = <<>> /\ heap = <<>>)
    /\ \A i \in 1..Len(scored_schedules) :
          Len(scored_schedules[i].schedule) = Len(course_ids)
    /\ \A i \in 1..Len(heap) : Len(heap[i].idx) = Len(course_ids)

\* a request of a schedulable course and an unschedulable one has returned
C3_Witness ==
    /\ pc = "done"
    /\ Len(course_ids) = 2
    /\ find_valid_combinations(Catalog[course_ids[1]]) # <<>>
    /\ find_valid_combinations(Catalog[course_ids[2]]) = <<>>
    /\ max_results > 0
    /\ scored_schedules = <<>>

\* C4: the returned sequence is ordered best first: each result's score is
\* greater than or equal to the next one's.
C4_BestFirst == pc = "done" => BestFirst

\* three results with different scores have been returned
C4_Witness ==
    /\ pc = "done"
    /\ Len(scored_schedules) >= 3
    /\ RLess(scored_schedules[2].score, scored_schedules[1].score)
    /\ RLess(scored_schedules[3].score, scored_schedules[2].score)

\* C5: ties are broken by first-generated order: two returned schedules with
\* equal score appear in the order the cross product generated them, and no
\* two heap entries agree on (score, sequence number), so the tuple
\* comparison never reaches the schedule itself.
C5_TiesInGenerationOrder ==
    /\ pc = "done" =>
          \A i, j \in 1..Len(scored_schedules) :
              (i < j /\ scored_schedules[i].score = scored_schedules[j].score)
                  => GeneratedBefore(scored_schedules[i].schedule, scored_schedules[j].schedule)
    /\ \A i, j \in 1..Len(heap) : i # j => heap[i].count # heap[j].count

\* two schedules with equal score have been returned, and a third
C5_Witness ==
    /\ pc = "done"
    /\ Len(scored_schedules) >= 3
    /\ \E i \in 1..(Len(scored_schedules) - 1) :
          scored_schedules[i].score = scored_schedules[i + 1].score

(***************************************************************************)
(* The scoring function as a state machine: score_schedule is called on a  *)
(* schedule and a preference profile, and called again on the same         *)
(* schedule or on that schedule with one more slot whose start time cannot *)
(* be read, under the same profile or one that differs in the per-day cap. *)
(* A call is recorded with the terms it added to the base score.           *)
(***************************************************************************)
MaxScoreSlots == 2   \* most slots of the schedule of a first call
MaxCap == 2          \* largest maxClassesPerDay

ScoreSlotPool == {Slot(<<"M">>, <<8, 0>>, <<8, 50>>),
                  Slot(<<"M">>, <<10, 0>>, <<10, 50>>),
                  Slot(<<"T">>, <<18, 0>>, <<18, 50>>)}

\* slots whose startTime is missing or is not a clock time
UnknownStartSlots == {Slot(<<"T">>, EmptyStr, <<9, 50>>),
                      Slot(<<"M">>, <<NaP, 0>>, <<11, 30>>)}

\* a combination of a lecture that meets in one slot and has no sections
LectureOnly(slot) ==
    Combination(0, [enrollCode |-> "X", instructor |-> "", times |-> <<slot>>,
                    sections |-> <<>>,
                    isStandalone |-> FALSE, typeInstruction |-> "LEC"],
                FALSE, NoSection)

ScoreSchedules ==
    {[i \in 1..Len(ts) |-> LectureOnly(ts[i])] :
        ts \in SeqsUpTo(ScoreSlotPool, MaxScoreSlots)}

ScoreProfiles ==
    {[NoPreferences EXCEPT !.maxClassesPerDay = c] : c \in 0..MaxCap}
    \cup {[NoPreferences EXCEPT !.spreadPreference = "spread"],
          [NoPreferences EXCEPT !.avoidEarlyMorning = TRUE],
          [NoPreferences EXCEPT !.avoidLateEvening = TRUE],
          [NoPreferences EXCEPT !.minimizeGaps = TRUE]}
    \cup {[NoPreferences EXCEPT !.preferredTimeOfDay = t] :
             t \in {"morning", "afternoon", "evening"}}

\* score_schedule(combos, prefs) with pre_extracted_times left out (lines
\* 312-315), and the values of its time-based terms
ScoreCall(combos, prefs) ==
    LET all_times == AllTimes(combos)
    IN  [combos |-> combos,
         prefs |-> prefs,
         score |-> score_schedule(combos, prefs, all_times),
         avoid_early |-> score_avoid_early(all_times, prefs),
         avoid_late |-> score_avoid_late(all_times, prefs),
         gaps |-> score_gaps(all_times, prefs),
         time_of_day |-> score_time_of_day(all_times, prefs)]

InitScore ==
    /\ pc = "input"
    /\ score_prev = <<>>
    /\ score_last = <<>>
    /\ IdleConflict
    /\ IdleNormalizer
    /\ IdleOptimizer
    /\ IdleClock
    /\ IdleService

ScoreSchedule ==
    /\ pc = "input"
    /\ \E prefs \in
            (IF score_last = <<>> THEN ScoreProfiles
             ELSE {[score_last[1].prefs EXCEPT !.maxClassesPerDay = c] : c \in 0..MaxCap}) :
        \E combos \in
            (IF score_last = <<>> THEN ScoreSchedules
             ELSE {score_last[1].combos}
                  \cup {Append(score_last[1].combos, LectureOnly(t)) :
                           t \in {u \in UnknownStartSlots :
                                     score_last[1].combos \in ScoreSchedules}}) :
            /\ score_last' = <<ScoreCall(combos, prefs)>>
            /\ score_prev' = score_last
    /\ UNCHANGED <<pc, time_cache, clock_arg, clock_result, conflict_vars,
                   normalizer_vars, optimizer_vars, service_vars>>

NextScore == ScoreSchedule

SpecScore == InitScore /\ [][NextScore]_vars

(***************************************************************************)
(* Claims about the scoring function.                                      *)
(***************************************************************************)
BothScored == score_prev # <<>> /\ score_last # <<>>

\* the two profiles differ in nothing but maxClassesPerDay
SameButCap(prefs1, prefs2) ==
    [prefs1 EXCEPT !.maxClassesPerDay = 0] = [prefs2 EXCEPT !.maxClassesPerDay = 0]

CapMonotone(call1, call2) ==
    call1.prefs.maxClassesPerDay <= call2.prefs.maxClassesPerDay
        => ~RLess(call2.score, call1.score)

\* C11: for every schedule and every two preference profiles that differ
\* only in maxClassesPerDay, with caps 0 <= c1 <= c2, the score with cap c2
\* is greater than or equal to the score with cap c1.
C11_CapMonotone ==
    (BothScored
        /\ score_prev[1].combos = score_last[1].combos
        /\ SameButCap(score_prev[1].prefs, score_last[1].prefs))
    => /\ CapMonotone(score_prev[1], score_last[1])
       /\ CapMonotone(score_last[1], score_prev[1])

\* the same statement for caps c1 >= 1
Sanity_C11_PositiveCaps ==
    (BothScored
        /\ score_prev[1].prefs.maxClassesPerDay >= 1
        /\ score_last[1].prefs.maxClassesPerDay >= 1)
    => C11_CapMonotone

\* C12: for every non-empty schedule, score_schedule with the empty
\* preference profile returns exactly the base value 100.0; no centering or
\* spreading adjustment is applied when spreadPreference is not given.
C12_EmptyProfileScoresBase ==
    (score_last # <<>>
        /\ score_last[1].combos # <<>>
        /\ score_last[1].prefs = NoPreferences)
    => score_last[1].score = RInt(100)

\* the last call scored the schedule of the call before it plus one slot
\* whose start time is missing or unparsable, under the same profile
AddedUnknownStart ==
    /\ BothScored
    /\ score_prev[1].combos # <<>>
    /\ score_prev[1].prefs = score_last[1].prefs
    /\ \E t \in UnknownStartSlots :
          score_last[1].combos = Append(score_prev[1].combos, LectureOnly(t))

\* C13: a slot whose start time is missing or unparsable contributes 0 to
\* every time-based scoring term: adding it to a schedule changes neither
\* the avoid-early penalty, nor the avoid-late penalty, nor the time-of-day
\* bonus, nor the gap term.
C13_UnknownStartContributesNothing ==
    AddedUnknownStart
    => /\ score_last[1].avoid_early = score_prev[1].avoid_early
       /\ score_last[1].avoid_late = score_prev[1].avoid_late
       /\ score_last[1].time_of_day = score_prev[1].time_of_day
       /\ score_last[1].gaps = score_prev[1].gaps

\* the avoid-late, afternoon, evening and gap terms alone
Sanity_C13_LateAndGapTerms ==
    (AddedUnknownStart /\ score_last[1].prefs.preferredTimeOfDay # "morning")
    => /\ score_last[1].avoid_late = score_prev[1].avoid_late
       /\ score_last[1].time_of_day = score_prev[1].time_of_day
       /\ score_last[1].gaps = score_prev[1].gaps

(***************************************************************************)
(* Further claims about the conflict check.                                *)
(***************************************************************************)
NoSharedWeekday(a, b) == daysOfWeek(a) \cap daysOfWeek(b) = {}

\* C14: for every two time slots whose day strings share no weekday letter
\* among M, T, W, R, F, the overlap test is false regardless of their times
\* and of any other characters in the day strings, both in has_time_conflict
\* and in check_schedule_conflicts_fast.
C14_NoSharedWeekdayNoConflict ==
    /\ (pair_result # <<>> /\ NoSharedWeekday(slots[1], slots[2]))
          => pair_result[1] = FALSE
    /\ (fast_result # <<>>
            /\ \A i, j \in 1..Len(slots) : i < j => NoSharedWeekday(slots[i], slots[j]))
          => fast_result[1] = FALSE

\* the same statement for check_schedule_conflicts_fast alone
Sanity_C14_FastCheck ==
    (fast_result # <<>>
        /\ \A i, j \in 1..Len(slots) : i < j => NoSharedWeekday(slots[i], slots[j]))
    => fast_result[1] = FALSE

\* a and b are clock-time slots sharing a weekday, and a ends exactly when b
\* starts
Touching(a, b) ==
    /\ IsTimeSlot(a)
    /\ IsTimeSlot(b)
    /\ ~NoSharedWeekday(a, b)
    /\ Minute(a.endTime) = Minute(b.startTime)

\* C15: boundary-touching slots do not conflict: for two slots sharing a
\* weekday where end(a) = start(b), has_time_conflict(a, b) is false and
\* check_schedule_conflicts_fast on a list containing only a and b is false.
C15_TouchingSlotsDoNotConflict ==
    /\ (pair_result # <<>> /\ Touching(slots[1], slots[2]))
          => pair_result[1] = FALSE
    /\ (fast_result # <<>> /\ Len(slots) = 2
            /\ (Touching(slots[1], slots[2]) \/ Touching(slots[2], slots[1])))
          => fast_result[1] = FALSE

\* two touching slots have been checked both ways
C15_Witness ==
    /\ Len(slots) = 2
    /\ Touching(slots[1], slots[2])
    /\ pair_result = <<FALSE>>
    /\ fast_result = <<FALSE>>

\* C16: the overlap test is symmetric: for all time slots a and b,
\* has_time_conflict(a, b) = has_time_conflict(b, a).
C16_ConflictSymmetric ==
    pair_result # <<>> => pair_result[1] = has_time_conflict(slots[2], slots[1])

\* two different slots were found in conflict
C16_Witness ==
    /\ Len(slots) >= 2
    /\ slots[1] # slots[2]
    /\ pair_result = <<TRUE>>

(***************************************************************************)
(* The clock-time parser as a state machine: time_to_minutes of            *)
(* schedule_optimizer is called on one value after another; _time_cache    *)
(* keeps the result of every non-empty string it has parsed.               *)
(***************************************************************************)
MaxCached == 2       \* most entries of _time_cache

NaS == -200000       \* the one part of a truthy value that is not a string

\* a truthy argument that is not a string, such as the integer 930
TruthyNonString == <<NaS>>

\* "", "09:30", "00:00", "23:59", "24:00", "25:00", "09:60", "-1:30", "9",
\* "09:30:00", "ab:cd", "09:xx" and 930
ClockInputs == {EmptyStr, <<9, 30>>, <<0, 0>>, <<23, 59>>, <<24, 0>>, <<25, 0>>,
                <<9, 60>>, <<-1, 30>>, <<9>>, <<9, 30, 0>>, <<NaP, NaP>>,
                <<9, NaP>>, TruthyNonString}

Cached(time_str) == \E e \in time_cache : e[1] = time_str

CachedMinutes(time_str) == (CHOOSE e \in time_cache : e[1] = time_str)[2]

InitClock ==
    /\ pc = "input"
    /\ time_cache = {}
    /\ clock_arg = <<>>
    /\ clock_result = <<>>
    /\ IdleConflict
    /\ IdleNormalizer
    /\ IdleOptimizer
    /\ IdleScore
    /\ IdleService

\* time_to_minutes(time_str), lines 14-30: a falsy argument returns 0 before
\* the cache is read; a truthy non-string has no split() and the
\* AttributeError leaves the function; a cached string returns its entry;
\* any other string is parsed and cached
TimeToMinutes ==
    /\ pc = "input"
    /\ \E time_str \in ClockInputs :
        /\ clock_arg' = time_str
        /\ IF time_str = EmptyStr
           THEN /\ clock_result' = <<0>>
                /\ UNCHANGED <<pc, time_cache>>
           ELSE IF time_str = TruthyNonString
           THEN /\ clock_result' = <<>>
                /\ pc' = "raised"
                /\ UNCHANGED time_cache
           ELSE IF Cached(time_str)
           THEN /\ clock_result' = <<CachedMinutes(time_str)>>
                /\ UNCHANGED <<pc, time_cache>>
           ELSE /\ Cardinality(time_cache) < MaxCached
                /\ clock_result' = <<time_to_minutes(time_str)>>
                /\ time_cache' = time_cache \cup {<<time_str, time_to_minutes(time_str)>>}
                /\ UNCHANGED pc
    /\ UNCHANGED <<score_prev, score_last, conflict_vars, normalizer_vars, optimizer_vars,
                   service_vars>>

NextClock == TimeToMinutes

SpecClock == InitClock /\ [][NextClock]_vars

(***************************************************************************)
(* Claims about the clock-time parser.                                     *)
(***************************************************************************)
\* C18: clock-time parsing never raises and accepts only 24-hour "HH:MM"
\* strings: for every input that is not a well-formed 24-hour HH:MM time
\* (wrong number of parts, non-digits, hour > 23, minute > 59, negative
\* component, or a non-string value) time_to_minutes yields the
\* no-numeric-minutes value 0, and the result is always either that value or
\* an integer in [0, 1440).
C18_ParsesOnly24HourTimes ==
    /\ pc # "raised"
    /\ clock_result # <<>> =>
          /\ ~IsClockTime(clock_arg) => clock_result[1] = 0
          /\ clock_result[1] \in 0..1439

\* what does hold: a well-formed time is read as hours * 60 + minutes, and
\* a string of the wrong shape or with a part that is no integer reads as 0
Sanity_C18_WellFormedAndMalformed ==
    clock_result # <<>> =>
        /\ IsClockTime(clock_arg) => clock_result[1] = Minute(clock_arg)
        /\ Unparsable(clock_arg) => clock_result[1] = 0

(***************************************************************************)
(* Further claims about the normalizer.                                    *)
(***************************************************************************)
\* C17: catalog records with absent or None fields never make the normalizer
\* raise: for a raw record in which classSections, timeLocations, days,
\* beginTime, endTime, enrollCode or typeInstruction is absent or None,
\* get_course_info completes normally (and so do find_valid_combinations and
\* optimize_schedules, which call it).
C17_NoneFieldsNeverRaise == pc # "raised"

HasNoneList ==
    \E r \in 1..Len(raw_records) :
        \/ raw_records[r].classSections = NoneSections
        \/ \E k \in 1..Len(raw_records[r].classSections) :
              raw_records[r].classSections[k].timeLocations = NoneTimeLocations

\* the same statement for records whose list fields are lists: absent or
\* empty strings and empty lists never raise
Sanity_C17_AbsentFields == ~HasNoneList => pc # "raised"

\* the record is the first of the course whose lecture has this enrollCode
FirstWithItsLecture(r) ==
    LET sections == raw_records[r].classSections
        i == FirstLectureIndex(sections)
    IN  /\ i # 0
        /\ \A q \in 1..(r - 1) :
              LET earlier == raw_records[q].classSections
                  iq == FirstLectureIndex(earlier)
              IN  iq = 0 \/ earlier[iq].enrollCode # sections[i].enrollCode

\* the lectureSections entry of record r's lecture lists section k of the record
ListedUnderLecture(r, k) ==
    LET sections == raw_records[r].classSections
        i == FirstLectureIndex(sections)
        lectures == course_info[1].lectureSections
    IN  \E e \in 1..Len(lectures) :
            /\ lectures[e].enrollCode = sections[i].enrollCode
            /\ lectures[e].times = format_time_info(sections[i].timeLocations)
            /\ \E j \in 1..Len(lectures[e].sections) :
                  /\ lectures[e].sections[j].enrollCode = sections[k].enrollCode
                  /\ lectures[e].sections[j].times = format_time_info(sections[k].timeLocations)

\* C19: for every raw record that contains a section tagged as a lecture,
\* that section becomes the record's lecture and ALL other sections of the
\* same record become its associated secondary sections in the
\* lectureSections entry.  (Stated for sections that have a complete time
\* slot; sections without one are C9's case.)
C19_AllOtherSectionsAttached ==
    course_info # <<>> =>
        \A r \in 1..Len(raw_records) :
            FirstWithItsLecture(r) =>
                \A k \in 1..Len(raw_records[r].classSections) :
                    (k # FirstLectureIndex(raw_records[r].classSections)
                        /\ format_time_info(raw_records[r].classSections[k].timeLocations) # <<>>)
                    => ListedUnderLecture(r, k)

\* what does hold: the other sections that are not tagged LEC and have an
\* enrollCode are attached
Sanity_C19_CodedNonLectures ==
    course_info # <<>> =>
        \A r \in 1..Len(raw_records) :
            FirstWithItsLecture(r) =>
                \A k \in 1..Len(raw_records[r].classSections) :
                    (k # FirstLectureIndex(raw_records[r].classSections)
                        /\ format_time_info(raw_records[r].classSections[k].timeLocations) # <<>>
                        /\ verify_section_belongs_to_lecture(raw_records[r].classSections[k]))
                    => ListedUnderLecture(r, k)

\* section j of lecture entry e was taken, with the entry's lecture, from
\* one raw record: the first record whose lecture has the entry's enrollCode
FromLectureRecord(e, j) ==
    LET entry == course_info[1].lectureSections[e]
        sec == entry.sections[j]
    IN  \E r \in 1..Len(raw_records) :
            LET sections == raw_records[r].classSections
                i == FirstLectureIndex(sections)
            IN  /\ FirstWithItsLecture(r)
                /\ sections[i].enrollCode = entry.enrollCode
                /\ format_time_info(sections[i].timeLocations) = entry.times
                /\ \E k \in 1..Len(sections) :
                      /\ k # i
                      /\ sections[k].enrollCode = sec.enrollCode
                      /\ InstructorOf(sections[k]) = sec.instructor
                      /\ format_time_info(sections[k].timeLocations) = sec.times

\* C20: every secondary section listed under a lecture in the normalized
\* course comes from the same raw catalog record that contained that
\* lecture; no section is ever attached to a lecture of another record,
\* whatever the instructor names of lectures and sections are.
C20_SectionsFromLectureRecord ==
    course_info # <<>> =>
        LET lectures == course_info[1].lectureSections
        IN  \A e \in 1..Len(lectures) : \A j \in 1..Len(lectures[e].sections) :
                /\ FromLectureRecord(e, j)
                /\ lectures[e].sections[j].lectureEnrollCode = lectures[e].enrollCode

\* a course of two records has been normalized into two lectures, each with
\* sections of its own, and a section under the first lecture is taught by
\* the instructor of the second lecture
C20_Witness ==
    /\ course_info # <<>>
    /\ Len(raw_records) = 2
    /\ Len(course_info[1].lectureSections) = 2
    /\ course_info[1].lectureSections[2].sections # <<>>
    /\ course_info[1].lectureSections[2].instructor # ""
    /\ course_info[1].lectureSections[1].instructor
           # course_info[1].lectureSections[2].instructor
    /\ \E j \in 1..Len(course_info[1].lectureSections[1].sections) :
          course_info[1].lectureSections[1].sections[j].instructor
              = course_info[1].lectureSections[2].instructor

\* the enrollCodes of the records' lectures, in record order
RecordLectureCodes ==
    LET with_lecture == SelectSeq(raw_records,
                            LAMBDA rec : FirstLectureIndex(rec.classSections) # 0)
    IN  [r \in 1..Len(with_lecture) |->
            with_lecture[r].classSections[
                FirstLectureIndex(with_lecture[r].classSections)].enrollCode]

DistinctCodes(codes) ==
    \A a, b \in 1..Len(codes) : a # b => codes[a] # codes[b]

\* C21: in the lectureSections list returned by get_course_info no two
\* entries have the same lecture enrollCode, and when several raw records of
\* one courseId each contribute a lecture with a distinct enrollCode, exactly
\* one lecture entry is emitted per such record, in record order.
C21_LecturesDeduplicated ==
    course_info # <<>> =>
        LET lectures == course_info[1].lectureSections
            entry_codes == [e \in 1..Len(lectures) |-> lectures[e].enrollCode]
        IN  /\ DistinctCodes(entry_codes)
            /\ {RecordLectureCodes[r] : r \in 1..Len(RecordLectureCodes)}
                   \subseteq {entry_codes[e] : e \in 1..Len(lectures)}
            /\ (RecordLectureCodes # <<>> /\ DistinctCodes(RecordLectureCodes))
                   => entry_codes = RecordLectureCodes

\* a course of two records whose lectures carry the same enrollCode has been
\* normalized into one lecture entry, the first record's
C21_Witness ==
    /\ course_info # <<>>
    /\ Len(RecordLectureCodes) = 2
    /\ RecordLectureCodes[1] = RecordLectureCodes[2]
    /\ Len(course_info[1].lectureSections) = 1
    /\ course_info[1].lectureSections[1].times
           = format_time_info(raw_records[1].classSections[
                 FirstLectureIndex(raw_records[1].classSections)].timeLocations)
    /\ raw_records[2].classSections[
           FirstLectureIndex(raw_records[2].classSections)].timeLocations
         # raw_records[1].classSections[
               FirstLectureIndex(raw_records[1].classSections)].timeLocations

\* two records with lectures of distinct codes give two entries
C21_WitnessDistinct ==
    /\ course_info # <<>>
    /\ Len(RecordLectureCodes) = 2
    /\ RecordLectureCodes[1] # RecordLectureCodes[2]
    /\ Len(course_info[1].lectureSections) = 2

\* record r has no section tagged LEC and exactly one section
UntaggedSingle(r) ==
    /\ Len(raw_records[r].classSections) = 1
    /\ FirstLectureIndex(raw_records[r].classSections) = 0

\* the only section of record r is a lecture entry without secondary sections
AppearsAsLecture(r) ==
    LET only == raw_records[r].classSections[1]
        lectures == course_info[1].lectureSections
    IN  \E e \in 1..Len(lectures) :
            /\ lectures[e].enrollCode = only.enrollCode
            /\ lectures[e].times = format_time_info(only.timeLocations)
            /\ lectures[e].sections = <<>>

\* C22: for every raw record of a course that has no lecture-tagged section
\* and exactly one section, that section appears as a lecture (an entry with
\* no secondary sections) in the normalized course, also when other raw
\* records of the same courseId contribute tagged lectures.
C22_UntaggedSingleIsLecture ==
    course_info # <<>> =>
        \A r \in 1..Len(raw_records) : UntaggedSingle(r) => AppearsAsLecture(r)

\* what does hold: the section appears as a lecture when no record of the
\* course has a tagged lecture and the section has an enrollCode, or when
\* its record is the only one
Sanity_C22_NoTaggedLecture ==
    course_info # <<>> =>
        \A r \in 1..Len(raw_records) :
            (/\ UntaggedSingle(r)
             /\ RecordLectureCodes = <<>>
             /\ raw_records[r].classSections[1].enrollCode # "" \/ Len(raw_records) = 1)
            => AppearsAsLecture(r)

\* some two distinct slots of the list overlap by the pairwise test
SomePairConflicts ==
    \E i, j \in 1..Len(slots) : i # j /\ has_time_conflict(slots[i], slots[j])

\* C25: for every list of time slots, check_schedule_conflicts_fast returns
\* true if and only if there exist two distinct slots in the list for which
\* has_time_conflict is true.
C25_FastAgreesWithPairwise ==
    fast_result # <<>> => (fast_result[1] <=> SomePairConflicts)

\* the day strings of the list hold weekday letters only
WeekdayLettersOnly ==
    \A i \in 1..Len(slots) : Range(slots[i].days) \subseteq {"M", "T", "W", "R", "F"}

\* the two checks agree on day strings made of the letters M T W R F
Sanity_C25_WeekdayLetters ==
    (fast_result # <<>> /\ WeekdayLettersOnly) => (fast_result[1] <=> SomePairConflicts)

\* a step of the streaming loop that offers a valid candidate to a full queue
FullQueueCandidateStep ==
    /\ pc = "streaming"
    /\ count_processed' = count_processed + 1
    /\ heap # <<>>
    /\ Len(heap) = max_results

HeldScores == {RNeg(heap[i].neg_score) : i \in 1..Len(heap)}

LowestHeld == CHOOSE low \in HeldScores : \A other \in HeldScores : ~RLess(other, low)

CandidateScore ==
    score_schedule(ScheduleAt(per_course, cursor), preferences,
                   optimizer_schedule_times(per_course, cursor))

\* the step rule of the bounded queue, for the step from heap to heap'
QueueStepRule ==
    LET evicted == Range(heap) \ Range(heap')
    IN  /\ (heap' # heap) <=> RLess(LowestHeld, CandidateScore)
        /\ heap' # heap =>
              /\ Cardinality(evicted) = 1
              /\ \A e \in evicted : RNeg(e.neg_score) = LowestHeld
              /\ \A e \in evicted : \A stays \in Range(heap) \cap Range(heap') :
                    ~RLess(RNeg(stays.neg_score), RNeg(e.neg_score))

\* C24: in optimize_schedules, once the queue holds k entries a candidate is
\* admitted if and only if its score is strictly greater than the lowest
\* score currently held, and the entry it evicts is that lowest-scored entry;
\* a candidate never evicts an entry whose score is higher than another
\* entry that stays in the queue.
C24_QueueStepRule == [][FullQueueCandidateStep => QueueStepRule]_vars

\* the rule does hold for a queue of one entry, where the lowest held is
\* also the best held
Sanity_C24_QueueOfOne == [][(FullQueueCandidateStep /\ max_results = 1) => QueueStepRule]_vars

\* C26: for every k >= 0 and every input with V valid schedules,
\* optimize_schedules completes without raising and returns exactly
\* min(k, V) entries, and the internal queue never holds more than k entries
\* at any step.  (Stated for a non-empty course list; V is the length of the
\* full generation.)
C26_ReturnsMinOfKAndV ==
    /\ pc # "raised"
    /\ Len(heap) <= max_results
    /\ (pc = "done" /\ course_ids # <<>>) =>
          Len(scored_schedules) = Min({max_results, Len(AllValid)})

\* for k >= 1 and courses without repeated combination keys nothing is
\* raised and the count is min(k, V)
Sanity_C26_PositiveK == (max_results >= 1 /\ KeysDistinct) => C26_ReturnsMinOfKAndV

\* C27: whenever k >= 1 and at least one valid schedule exists, the first
\* entry returned by optimize_schedules has the maximum score over all valid
\* schedules of the cross product, and among schedules with that maximum
\* score it is the first one generated.  (Stated for a non-empty course
\* list.)
C27_FirstIsBestOfAll ==
    (pc = "done" /\ max_results >= 1 /\ course_ids # <<>> /\ AllValid # <<>>) =>
        /\ scored_schedules # <<>>
        /\ scored_schedules[1].schedule \in Range(AllValid)
        /\ scored_schedules[1].score = ScoreOf(scored_schedules[1].schedule)
        /\ \A v \in Range(AllValid) :
              /\ ~RLess(scored_schedules[1].score, ScoreOf(v))
              /\ (v # scored_schedules[1].schedule
                      /\ ScoreOf(v) = scored_schedules[1].score)
                    => GeneratedBefore(scored_schedules[1].schedule, v)

\* the statement holds for requests whose courses have no two combinations
\* with the same (lecture enrollCode, section enrollCode) key
Sanity_C27_KeysDistinct == KeysDistinct => C27_FirstIsBestOfAll

\* C28: when max_results is at least the number of valid schedules,
\* optimize_schedules and generate_all_schedule_combinations return the same
\* set of schedules for the same course list, including the empty course
\* list and courses whose combinations share a (lecture enrollCode, section
\* enrollCode) key.
C28_OptimizeEqualsGenerate ==
    (pc = "done" /\ generated # <<>> /\ max_results >= Len(generated[1])) =>
        Returned = Range(generated[1])

\* the two agree on non-empty course lists without repeated combination keys
Sanity_C28_KeysDistinct ==
    (course_ids # <<>> /\ KeysDistinct) => C28_OptimizeEqualsGenerate

\* the statement for the empty course list alone
C28_OnEmptyList ==
    (pc = "done" /\ generated # <<>> /\ course_ids = <<>>) => Returned = Range(generated[1])

\* the statement for non-empty course lists, repeated keys included
C28_OnRepeatedKey ==
    course_ids # <<>> => C28_OptimizeEqualsGenerate

\* the combinations find_valid_combinations returns for the only course of
\* the request
OwnCombinations == find_valid_combinations(Catalog[course_ids[1]])

\* C29: for a single requested course c and k >= 1, optimize_schedules([c])
\* returns one schedule per combination of find_valid_combinations(c), up to
\* k: the per-course validity test and the whole-schedule conflict test
\* never disagree about a single combination.
C29_SingleCourseAllCombinations ==
    (pc = "done" /\ Len(course_ids) = 1 /\ max_results >= 1) =>
        /\ Len(scored_schedules) = Min({max_results, Len(OwnCombinations)})
        /\ Returned \subseteq {<<i>> : i \in 1..Len(OwnCombinations)}

\* no combination of the course has two time slots that overlap each other
NoSelfOverlap ==
    \A i \in 1..Len(OwnCombinations) :
        ~check_schedule_conflicts_fast(get_all_times_from_combination(OwnCombinations[i]))

\* the statement holds for courses none of whose combinations overlaps itself
Sanity_C29_NoSelfOverlap ==
    (Len(course_ids) = 1 /\ NoSelfOverlap) => C29_SingleCourseAllCombinations

(***************************************************************************)
(* Repeated generation over the module-level caches: the process answers   *)
(* generate_all_schedule_combinations for one course list twice, with or   *)
(* without a restart in between.  _all_course_data_cache is a set of       *)
(* <<course id, records>> pairs and _time_cache a set of <<string,         *)
(* minutes>> pairs; both are empty when the modules are imported.          *)
(***************************************************************************)
InDataCache(cache, course_id) == \E e \in cache : e[1] = course_id

get_all_course_data_by_id_cached_first_only(cache, course_id) ==
    IF InDataCache(cache, course_id)
    THEN LET records == (CHOOSE e \in cache : e[1] = course_id)[2]
         IN  SubSeq(records, 1, 1)
    ELSE Catalog[course_id]

\* get_all_course_data_by_id: a cached id returns the cached list (lines
\* 267-268); any other id is searched for in the catalog files
get_all_course_data_by_id(cache, course_id) ==
    IF InDataCache(cache, course_id)
    THEN (CHOOSE e \in cache : e[1] = course_id)[2]
    ELSE Catalog[course_id]

\* the cache after the lookups of one generation call: the ids are looked up
\* in order until one has no valid combination, and every id that was
\* searched for is cached with what the search found, an empty list included
RECURSIVE SearchAll(_, _)
SearchAll(cache, ids) ==
    IF ids = <<>> THEN cache
    ELSE LET records == get_all_course_data_by_id(cache, Head(ids))
             after == IF InDataCache(cache, Head(ids)) THEN cache
                      ELSE cache \cup {<<Head(ids), records>>}
         IN  IF find_valid_combinations(records) = <<>> THEN after
             ELSE SearchAll(after, Tail(ids))

\* the catalog as the lookups of a call see it
CachedCatalog(cache) == [c \in CourseIds |-> get_all_course_data_by_id(cache, c)]

\* every element of the product of the per-course combinations
AllIdx(per) ==
    {idx \in [1..Len(per) -> 1..Max({1} \cup {Len(per[i]) : i \in 1..Len(per)})] :
        \A i \in 1..Len(per) : idx[i] <= Len(per[i])}

\* the strings check_schedule_conflicts_fast hands to time_to_minutes during
\* one generation call: the start and end of every slot of every product
\* element that has at least two slots; the empty string is never cached
ParsedTimeStrings(per) ==
    IF per = <<>> \/ SomeCourseUnschedulable(per) THEN {}
    ELSE UNION {LET times == generator_schedule_times(per, idx)
                IN  IF Len(times) < 2 THEN {}
                    ELSE {times[i].startTime : i \in 1..Len(times)}
                             \cup {times[i].endTime : i \in 1..Len(times)}
                : idx \in AllIdx(per)} \ {EmptyStr}

InitGenerate ==
    /\ pc = "input"
    /\ course_ids \in Requests
    /\ preferences = <<>>
    /\ max_results = 0
    /\ per_course = <<>>
    /\ cursor = <<>>
    /\ heap = <<>>
    /\ count_processed = 0
    /\ generated = <<>>
    /\ scored_schedules = <<>>
    /\ data_cache = {}
    /\ time_cache = {}
    /\ clock_arg = <<>>
    /\ clock_result = <<>>
    /\ selection = <<>>
    /\ filtered = <<>>
    /\ IdleConflict
    /\ IdleNormalizer
    /\ IdleScore

\* one call of generate_all_schedule_combinations(course_ids); pc records
\* whether a lookup of the call was served from _all_course_data_cache
GenerateCall ==
    /\ pc \in {"input", "searched", "served", "restarted"}
    /\ Len(generated) < 2
    /\ LET cache_after == SearchAll(data_cache, course_ids)
           catalog == CachedCatalog(cache_after)
           per == all_combinations_per_course(catalog, course_ids)
           parsed == ParsedTimeStrings(per)
       IN  /\ generated' = Append(generated,
                               generate_all_schedule_combinations(catalog, course_ids, 0))
           /\ data_cache' = cache_after
           /\ time_cache' = time_cache \cup
                  {<<time_str, time_to_minutes(time_str)>> :
                      time_str \in {t \in parsed : ~Cached(t)}}
    /\ pc' = IF \E i \in 1..Len(course_ids) : InDataCache(data_cache, course_ids[i])
             THEN "served" ELSE "searched"
    /\ UNCHANGED <<course_ids, preferences, max_results, per_course, cursor, heap,
                   count_processed, scored_schedules, clock_arg, clock_result,
                   selection, filtered, conflict_vars, normalizer_vars, score_vars>>

\* the process is restarted between two calls: the module-level caches are
\* empty again
Restart ==
    /\ pc \in {"searched", "served"}
    /\ Len(generated) = 1
    /\ data_cache' = {}
    /\ time_cache' = {}
    /\ pc' = "restarted"
    /\ UNCHANGED <<optimizer_vars, clock_arg, clock_result, selection, filtered,
                   conflict_vars, normalizer_vars, score_vars>>

NextGenerate == GenerateCall \/ Restart

SpecGenerate == InitGenerate /\ [][NextGenerate]_vars

\* C23: calling generate_all_schedule_combinations twice with the same
\* course list over the same catalog data yields the same schedules in the
\* same order, whether the second call is served from the course-data and
\* time caches or not; the first call leaves the catalog data unchanged:
\* what the caches hold is what the catalog search and the time parser
\* return.
C23_GenerationIdempotent ==
    /\ Len(generated) = 2 => generated[1] = generated[2]
    /\ \A e \in data_cache : e[2] = Catalog[e[1]]
    /\ \A e \in time_cache : e[2] = time_to_minutes(e[1])
    /\ \A c \in CourseIds : get_all_course_data_by_id(data_cache, c) = Catalog[c]

\* a second call has been served from the caches for a request of two
\* courses with several records and several valid schedules
C23_Witness ==
    /\ Len(generated) = 2
    /\ pc = "served"
    /\ Len(course_ids) = 2
    /\ Len(generated[2]) >= 2
    /\ time_cache # {}
    /\ \E e \in data_cache : Len(e[2]) >= 2

\* a second call after a restart searched the catalog again
C23_WitnessCold ==
    /\ Len(generated) = 2
    /\ pc = "searched"
    /\ Len(generated[2]) >= 2

(***************************************************************************)
(* The schedule filter: filter_courses_by_schedule is called on a list of  *)
(* one search result, the course whose catalog records are raw_records,    *)
(* and on the list of selected courses.                                    *)
(***************************************************************************)
SelectedCourse(lecture_times, section_times) ==
    [lecture |-> [times |-> lecture_times], section |-> [times |-> section_times]]

\* lines 703-713: the times of the selected lectures and sections
RECURSIVE SelectedTimes(_)
SelectedTimes(selected_courses) ==
    IF selected_courses = <<>> THEN <<>>
    ELSE Head(selected_courses).lecture.times \o Head(selected_courses).section.times
             \o SelectedTimes(Tail(selected_courses))

NoIndex == <<>>

FreeCombination(lecture_idx, section_idx) ==
    [lectureIndex |-> lecture_idx, sectionIndex |-> section_idx]

\* lines 792-796 / 849-853: the index in all_sections of the first section
\* with the enrollCode, None when there is none; indices count from 0
SectionIndex(all_sections, code) ==
    IF \E idx \in 1..Len(all_sections) : all_sections[idx].enrollCode = code
    THEN <<Min({idx \in 1..Len(all_sections) : all_sections[idx].enrollCode = code}) - 1>>
    ELSE NoIndex

\* lines 845-871: the lecture's sections that are free of the selected times
RECURSIVE FreeSections(_, _, _, _)
FreeSections(lecture_idx, lecture_sections, all_sections, sel) ==
    IF lecture_sections = <<>> THEN <<>>
    ELSE LET section == Head(lecture_sections)
             rest == FreeSections(lecture_idx, Tail(lecture_sections), all_sections, sel)
             found == FreeCombination(<<lecture_idx>>,
                                      SectionIndex(all_sections, section.enrollCode))
         IN  IF section.times = <<>> THEN <<found>> \o rest
             ELSE IF ~check_times_conflict(section.times, sel) THEN <<found>> \o rest
             ELSE rest

\* lines 783-871, one lecture: a standalone entry is free without times or
\* without conflict; a lecture without times is free only when it has no
\* sections; a lecture with times must not conflict and is then paired with
\* each of its free sections
FreeOfLecture(lecture_idx, lecture, all_sections, sel) ==
    IF lecture.isStandalone
    THEN IF lecture.times = <<>> \/ ~check_times_conflict(lecture.times, sel)
         THEN <<FreeCombination(<<lecture_idx>>,
                                SectionIndex(all_sections, lecture.enrollCode))>>
         ELSE <<>>
    ELSE IF lecture.times = <<>>
    THEN IF lecture.sections = <<>> THEN <<FreeCombination(<<lecture_idx>>, NoIndex)>>
         ELSE <<>>
    ELSE IF check_times_conflict(lecture.times, sel) THEN <<>>
    ELSE IF lecture.sections = <<>> THEN <<FreeCombination(<<lecture_idx>>, NoIndex)>>
    ELSE FreeSections(lecture_idx, lecture.sections, all_sections, sel)

\* lines 757-780: without lectures, the standalone sections of the flat list
RECURSIVE FreeStandalone(_, _, _)
FreeStandalone(all_sections, section_idx, sel) ==
    IF section_idx >= Len(all_sections) THEN <<>>
    ELSE LET section == all_sections[section_idx + 1]
             rest == FreeStandalone(all_sections, section_idx + 1, sel)
         IN  IF section.isStandalone
                 /\ (section.times = <<>> \/ ~check_times_conflict(section.times, sel))
             THEN <<FreeCombination(NoIndex, <<section_idx>>)>> \o rest
             ELSE rest

\* lines 750-871: conflict_free_combinations of one course
conflict_free_combinations(info, sel) ==
    IF info.lectureSections = <<>> THEN FreeStandalone(info.sections, 0, sel)
    ELSE Concat([i \in 1..Len(info.lectureSections) |->
                    FreeOfLecture(i - 1, info.lectureSections[i], info.sections, sel)])

\* lines 734-878 for the one course of the list: a course whose lookup
\* raises or finds nothing is skipped, any other is kept, with its
\* combinations, when it has a conflict-free combination
FilterOne(course, all_course_data, sel) ==
    IF RaisesTypeError(all_course_data) THEN <<>>
    ELSE LET info == get_course_info(all_course_data)
         IN  IF ~info.found THEN <<>>
             ELSE IF conflict_free_combinations(info, sel) = <<>> THEN <<>>
             ELSE <<[courseId |-> course.courseId,
                     conflictFreeCombinations |-> conflict_free_combinations(info, sel)]>>

\* filter_courses_by_schedule(courses, selected_courses) for a list of one
\* course: the list is returned as it is when nothing is selected or the
\* selected courses have no times
filter_courses_by_schedule(courses, all_course_data, selected_courses) ==
    IF selected_courses = <<>> THEN courses
    ELSE IF SelectedTimes(selected_courses) = <<>> THEN courses
    ELSE FilterOne(courses[1], all_course_data, SelectedTimes(selected_courses))

\* the one search result handed to the filter
SearchResult == [courseId |-> "X"]

SelectedMonday ==
    SelectedCourse(<<Slot(<<"M">>, <<9, 0>>, <<9, 50>>)>>, <<>>)

SelectedTuesday ==
    SelectedCourse(<<Slot(<<"W">>, <<14, 0>>, <<14, 50>>)>>,
                   <<Slot(<<"T">>, <<9, 0>>, <<9, 50>>)>>)

SelectedWithoutTimes == SelectedCourse(<<>>, <<>>)

Selections ==
    {<<>>, <<SelectedWithoutTimes>>, <<SelectedMonday>>, <<SelectedTuesday>>,
     <<SelectedMonday, SelectedTuesday>>}

\* the courses filtered: those of one record, and those of two records whose
\* first record has one section
FilterCourses ==
    {rc \in RawCourses : Len(rc) <= 1 \/ Len(rc[1].classSections) <= 1}

InitFilter ==
    /\ pc = "input"
    /\ raw_records \in FilterCourses
    /\ course_info = <<>>
    /\ combinations = <<>>
    /\ selection \in Selections
    /\ filtered = <<>>
    /\ data_cache = {}
    /\ IdleConflict
    /\ IdleOptimizer
    /\ IdleScore
    /\ IdleClock

FilterCoursesBySchedule ==
    /\ pc = "input"
    /\ filtered' = <<filter_courses_by_schedule(<<SearchResult>>, raw_records, selection)>>
    /\ pc' = "filtered"
    /\ UNCHANGED <<selection, data_cache, normalizer_vars, conflict_vars, optimizer_vars,
                   score_vars, clock_vars>>

NextFilter == FilterCoursesBySchedule

SpecFilter == InitFilter /\ [][NextFilter]_vars

\* the times are free of the selected times: there are none, or none conflicts
Free(times) ==
    times = <<>> \/ ~check_times_conflict(times, SelectedTimes(selection))

\* the course has a complete combination free of the selected times: a free
\* lecture alone when it has no sections, otherwise a free lecture together
\* with one of its own sections that is free
HasFreeCompleteCombination ==
    /\ ~RaisesTypeError(raw_records)
    /\ LET lectures == get_course_info(raw_records).lectureSections
       IN  \E e \in 1..Len(lectures) :
               /\ Free(lectures[e].times)
               /\ \/ lectures[e].sections = <<>>
                  \/ \E j \in 1..Len(lectures[e].sections) :
                        Free(lectures[e].sections[j].times)

Kept == filtered # <<>> /\ filtered[1] # <<>>

\* C30: filter_courses_by_schedule keeps a course if and only if the course
\* has at least one complete combination (a lecture alone when it has no
\* sections, otherwise a lecture together with one of its own sections) none
\* of whose time slots conflicts with the selected courses' time slots; a
\* lecture or section without times counts as non-conflicting, including a
\* lecture without times that has sections.
C30_KeptIffFreeCombination ==
    pc = "filtered" => (Kept <=> HasFreeCompleteCombination)

\* some lecture of the course has no times and has sections
TimelessLectureWithSections ==
    /\ ~RaisesTypeError(raw_records)
    /\ LET lectures == get_course_info(raw_records).lectureSections
       IN  \E e \in 1..Len(lectures) :
               lectures[e].times = <<>> /\ lectures[e].sections # <<>>

\* the statement holds when some selected course has times and no lecture
\* without times has sections
Sanity_C30_TimedLectures ==
    (SelectedTimes(selection) # <<>> /\ ~TimelessLectureWithSections)
        => C30_KeptIffFreeCombination

\* the statement for selections with times alone: the timeless lecture
C30_OnSelectionsWithTimes ==
    SelectedTimes(selection) # <<>> => C30_KeptIffFreeCombination

\* the statement for courses without a timeless lecture that has sections:
\* the selection without times
C30_OnTimedLectures ==
    ~TimelessLectureWithSections => C30_KeptIffFreeCombination

====
